---- MODULE Spec2Model ----
(***************************************************************************)
(* red-db: the storage engine (red-db-core/src/db.rs).                     *)
(*                                                                         *)
(* A Store is a persistent map  space name -> (HashedKey -> value)  held   *)
(* behind an atomically swappable pointer.  Readers load one snapshot;     *)
(* writers validate, enqueue the command on the AOF channel and then       *)
(* publish with a load / compute / compare-and-swap loop.  A background    *)
(* task appends the queued commands to the AOF file as length-prefixed     *)
(* bincode frames; Db::new rebuilds the Store from that file.              *)
(*                                                                         *)
(* Byte strings are run-length coded: the pair <<n, b>> is the string of   *)
(* n bytes that are all equal to b, and a byte sequence is a sequence of   *)
(* such runs.  Names, keys and values are single runs.                     *)
(***************************************************************************)
EXTENDS Integers, Sequences, FiniteSets, Bags, TLC

\* ------------------------------------------------------------------ bounds
NumTasks == 2
MaxCmds == 2
MaxRestarts == 1
MaxRecords == 3
MaxFrames == 3
MaxPoolSize == 3
MaxGets == 4
MaxDrain == 2

\* ------------------------------------------------------ program constants
AofChannelCap == 1024

Tasks == 1..NumTasks

\* ------------------------------------------------------------------- state
VARIABLES
    data,               \* the published Store (Db.data)
    ptr,                \* identity of the Arc that data holds; fresh per publish
    chan,               \* the AOF channel (aof_sender / receiver)
    aof,                \* the bytes of the AOF file
    writer,             \* aof_writer_task: "open", "run" or "dead"
    pc,                 \* per task: "idle", "read", "load", "cas"
    cmd,                \* per task: the command of the execute in progress
    db_snapshot,        \* per reader: the Store it loaded
    current_data_ptr,   \* per writer: the pointer its pass loaded
    new_data,           \* per writer: the Store its pass computed
    ret,                \* the call that returned in the last step, if one did
    issued,             \* how many commands were issued so far
    epoch,              \* how many times the engine was restarted
    seen,               \* history: per reader, the Stores published during its read
    overlapped,         \* history: two commands of this engine overlapped in time
    written,            \* history: the commands whose records are in the file
    linear,             \* history: the Ok writes applied one at a time, in publish order
    live,               \* history: per space in existence, the keys Set and not Deleted since
    torn,               \* history: the bytes of a record cut short at the end of the file
    stream,             \* server connection: the bytes received and not yet read
    hpc,                \* handle_connection: "off", "read", "execute", "write", "done"
    command,            \* handle_connection: the command read_command returned
    response,           \* handle_connection: the response execute returned
    result,             \* handle_connection: "None" while it runs, then "Ok" or the ConnectionError
    outbox,             \* server connection: the bytes written to the client
    script,             \* history: the commands the client sent on the connection
    executed,           \* history: the commands the handler passed to execute, with the responses
    sock,               \* client pool: per connection, "none", "open", "half_closed" or "dropped"
    slots,              \* client pool: the idle connections, oldest first
    held,               \* client pool: the connections handed out and not yet returned
    acquired,           \* client pool: what the last get() returned, and what its caller got from it
    gets,               \* client pool: how many get() calls were made so far
    builder,            \* ClientBuilder: max_pool_size, server_addr, aof_path (0 is None)
    made,               \* history of the builder: the last call, the Clients built, the files opened
    unread,             \* client pool: per connection, the bytes that arrived and were not read
    call                \* history: the last execute on a pooled connection, what the server
                        \* answered and what the call returned

\* The state of the client's connection pool.
builderVars == <<builder, made>>
wireVars == <<unread, call>>
poolVars == <<sock, slots, held, acquired, gets, builderVars, wireVars>>

\* The state of the server connection, and of the client's pool.
netVars ==
    <<stream, hpc, command, response, result, outbox, script, executed, poolVars>>

vars ==
    <<data, ptr, chan, aof, writer, pc, cmd, db_snapshot, current_data_ptr, new_data,
      ret, issued, epoch, seen, overlapped, written, linear, live, torn, netVars>>

\* ------------------------------------------------------------ byte strings
Str(n, b) == <<n, b>>
StrLen(s) == s[1]
EmptyStr == Str(0, 0)

SpaceA == Str(1, 97)
SpaceB == Str(1, 98)
Name255 == Str(255, 1)
Name256 == Str(256, 1)
KeyK == Str(1, 107)
KeyJ == Str(1, 106)
Val1 == Str(1, 120)
ValMax == Str(1048576, 2)
ValOver == Str(1048577, 2)

SpaceNames == {SpaceA, SpaceB}
CreateNames == SpaceNames \cup {EmptyStr, Name255, Name256}
KeyNames == {KeyK, KeyJ}
SetKeys == KeyNames \cup {EmptyStr}
Values == {Val1, ValMax, ValOver}

\* ------------------------------------------------- commands and responses
Cmd(op, space, key, value) ==
    [op |-> op, space |-> space, key |-> key, value |-> value]

Get(s, k) == Cmd("Get", s, k, EmptyStr)
Set(s, k, v) == Cmd("Set", s, k, v)
Delete(s, k) == Cmd("Delete", s, k, EmptyStr)
ListSpaces == Cmd("ListSpaces", EmptyStr, EmptyStr, EmptyStr)
ListKeys(s) == Cmd("ListKeys", s, EmptyStr, EmptyStr)
DeleteSpace(s) == Cmd("DeleteSpace", s, EmptyStr, EmptyStr)
CreateSpace(s) == Cmd("CreateSpace", s, EmptyStr, EmptyStr)
IsSpaceExists(s) == Cmd("IsSpaceExists", s, EmptyStr, EmptyStr)
NoCmd == Cmd("None", EmptyStr, EmptyStr, EmptyStr)

ReadCommands ==
    {Get(SpaceA, k) : k \in KeyNames}
        \cup {Get(SpaceB, KeyK)}
        \cup {ListKeys(s) : s \in SpaceNames}
        \cup {ListSpaces}
        \cup {IsSpaceExists(s) : s \in SpaceNames}

WriteCommands ==
    {Set(SpaceA, k, v) : k \in SetKeys, v \in Values}
        \cup {Set(SpaceB, KeyK, Val1)}
        \cup {Set(n, KeyK, Val1) : n \in {EmptyStr, Name256}}
        \cup {Delete(SpaceA, k) : k \in KeyNames}
        \cup {Delete(SpaceB, KeyK)}
        \cup {DeleteSpace(s) : s \in SpaceNames}
        \cup {CreateSpace(s) : s \in CreateNames}

\* ServerError: the variant and, where the variant carries one, the name.
\* The reason text of InvalidKey is not modelled.
ServerError(kind, name) == [kind |-> kind, name |-> name]
NoErr == ServerError("None", EmptyStr)

\* Response: val is <<>> for None and <<v>> for Some(v); the lists of Keys
\* and Spaces are bags (how often each name occurs), as the order of a hash
\* map's keys is unspecified.
Resp(tag, err, val, items, flag) ==
    [tag |-> tag, err |-> err, val |-> val, items |-> items, flag |-> flag]

ROk == Resp("Ok", NoErr, <<>>, EmptyBag, FALSE)
RValue(opt) == Resp("Value", NoErr, opt, EmptyBag, FALSE)
RKeys(ks) == Resp("Keys", NoErr, <<>>, ks, FALSE)
RSpaces(ss) == Resp("Spaces", NoErr, <<>>, ss, FALSE)
RBool(b) == Resp("Bool", NoErr, <<>>, EmptyBag, b)
RError(e) == Resp("Error", e, <<>>, EmptyBag, FALSE)
NoResp == Resp("None", NoErr, <<>>, EmptyBag, FALSE)

\* --------------------------------------------------------- persistent maps
EmptyMap == [x \in {} |-> EmptyStr]
MapInsert(m, k, v) == [x \in (DOMAIN m) \cup {k} |-> IF x = k THEN v ELSE m[x]]
MapRemove(m, k) == [x \in (DOMAIN m) \ {k} |-> m[x]]

\* keys().map(|k| k.key.clone()).collect(): one entry per entry of the map.
KeysOf(space_data) ==
    [k \in {hk.key : hk \in DOMAIN space_data} |->
        Cardinality({hk \in DOMAIN space_data : hk.key = k})]
\* keys().cloned().collect()
SpacesOf(store) == [s \in DOMAIN store |-> 1]

\* HashedKey::new: the key with its precomputed 64-bit hash; equal keys have
\* equal hashes, so record equality is equality of the keys.
AHash(k) == (StrLen(k) * 31 + k[2]) % (2 ^ 16)
HashedKey(k) == [key |-> k, hash |-> AHash(k)]

\* ------------------------------------------------------- Db::validate_command
Pass == [ok |-> TRUE, err |-> NoErr]
Fail(e) == [ok |-> FALSE, err |-> e]

\* Validation without the check of the key.
validate_no_key_check(c) ==
    IF c.op = "Set"
    THEN IF StrLen(c.value) > 1024 * 1024
         THEN Fail(ServerError("ValueTooLarge", EmptyStr))
         ELSE Pass
    ELSE IF c.op = "CreateSpace"
         THEN IF StrLen(c.space) = 0 \/ StrLen(c.space) > 255
              THEN Fail(ServerError("InvalidSpaceName", EmptyStr))
              ELSE Pass
         ELSE Pass

\* Validation with both limits exclusive.
validate_limits_exclusive(c) ==
    IF c.op = "Set"
    THEN IF StrLen(c.key) = 0
         THEN Fail(ServerError("InvalidKey", EmptyStr))
         ELSE IF StrLen(c.value) >= 1024 * 1024
              THEN Fail(ServerError("ValueTooLarge", EmptyStr))
              ELSE Pass
    ELSE IF c.op = "CreateSpace"
         THEN IF StrLen(c.space) = 0 \/ StrLen(c.space) >= 255
              THEN Fail(ServerError("InvalidSpaceName", EmptyStr))
              ELSE Pass
         ELSE Pass

\* Db::validate_command.  InvalidKey carries a constant message, which the
\* model leaves out of the error value.
validate_command(c) ==
    IF c.op = "Set"
    THEN IF StrLen(c.key) = 0
         THEN Fail(ServerError("InvalidKey", EmptyStr))
         ELSE IF StrLen(c.value) > 1024 * 1024
              THEN Fail(ServerError("ValueTooLarge", EmptyStr))
              ELSE Pass
    ELSE IF c.op = "CreateSpace"
         THEN IF StrLen(c.space) = 0 \/ StrLen(c.space) > 255
              THEN Fail(ServerError("InvalidSpaceName", EmptyStr))
              ELSE Pass
         ELSE Pass

\* ---------------------------------------------- Db::execute, the read arms
\* A Get that loads the Store pointer again for the lookup of the key.
ReadResponseReload(c, snapshot) ==
    CASE c.op = "Get" ->
            IF c.space \in DOMAIN snapshot
            THEN IF c.space \in DOMAIN data /\ HashedKey(c.key) \in DOMAIN data[c.space]
                 THEN RValue(<<data[c.space][HashedKey(c.key)]>>)
                 ELSE RValue(<<>>)
            ELSE RError(ServerError("SpaceNotFound", c.space))
      [] c.op = "ListKeys" ->
            IF c.space \in DOMAIN snapshot
            THEN RKeys(KeysOf(snapshot[c.space]))
            ELSE RError(ServerError("SpaceNotFound", c.space))
      [] c.op = "ListSpaces" -> RSpaces(SpacesOf(snapshot))
      [] c.op = "IsSpaceExists" -> RBool(c.space \in DOMAIN snapshot)

\* The response of a read command computed from the loaded snapshot.
ReadResponse(c, snapshot) ==
    CASE c.op = "Get" ->
            IF c.space \in DOMAIN snapshot
            THEN LET space_data == snapshot[c.space]
                     hashed_key == HashedKey(c.key)
                 IN  IF hashed_key \in DOMAIN space_data
                     THEN RValue(<<space_data[hashed_key]>>)
                     ELSE RValue(<<>>)
            ELSE RError(ServerError("SpaceNotFound", c.space))
      [] c.op = "ListKeys" ->
            IF c.space \in DOMAIN snapshot
            THEN RKeys(KeysOf(snapshot[c.space]))
            ELSE RError(ServerError("SpaceNotFound", c.space))
      [] c.op = "ListSpaces" -> RSpaces(SpacesOf(snapshot))
      [] c.op = "IsSpaceExists" -> RBool(c.space \in DOMAIN snapshot)

\* ------------------------------------- Db::handle_write, the match of a pass
\* One pass of the publish loop over the loaded Store: the new Store, or the
\* state error the pass returns with.
WriteResult(ok, err, store) == [ok |-> ok, err |-> err, store |-> store]

\* Set that builds the space from scratch and drops its other keys.
ComputeSetFresh(c, current) ==
    WriteResult(TRUE, NoErr,
                MapInsert(current, c.space, MapInsert(EmptyMap, HashedKey(c.key), c.value)))

ComputeSet(c, current) ==
    LET hashed_key == HashedKey(c.key)
        space_data == IF c.space \in DOMAIN current THEN current[c.space] ELSE EmptyMap
        updated_space_data == MapInsert(space_data, hashed_key, c.value)
    IN  WriteResult(TRUE, NoErr, MapInsert(current, c.space, updated_space_data))

\* Delete that leaves the key where it is.
ComputeDeleteKeepsKey(c, current) ==
    IF c.space \in DOMAIN current
    THEN WriteResult(TRUE, NoErr, current)
    ELSE WriteResult(FALSE, ServerError("SpaceNotFound", c.space), current)

\* Delete that reports a key it does not find.
ComputeDeleteKeyNotFound(c, current) ==
    IF c.space \in DOMAIN current
    THEN IF HashedKey(c.key) \in DOMAIN current[c.space]
         THEN WriteResult(TRUE, NoErr,
                          MapInsert(current, c.space,
                                    MapRemove(current[c.space], HashedKey(c.key))))
         ELSE WriteResult(FALSE, [kind |-> "KeyNotFound", name |-> c.key], current)
    ELSE WriteResult(FALSE, ServerError("SpaceNotFound", c.space), current)

ComputeDelete(c, current) ==
    IF c.space \in DOMAIN current
    THEN LET updated_space_data == MapRemove(current[c.space], HashedKey(c.key))
         IN  WriteResult(TRUE, NoErr, MapInsert(current, c.space, updated_space_data))
    ELSE WriteResult(FALSE, ServerError("SpaceNotFound", c.space), current)

\* DeleteSpace that takes an unknown space for done, as the replay does.
ComputeDeleteSpaceLenient(c, current) ==
    WriteResult(TRUE, NoErr, MapRemove(current, c.space))

ComputeDeleteSpace(c, current) ==
    IF c.space \notin DOMAIN current
    THEN WriteResult(FALSE, ServerError("SpaceNotFound", c.space), current)
    ELSE WriteResult(TRUE, NoErr, MapRemove(current, c.space))

\* CreateSpace that overwrites an existing space, as the replay does.
ComputeCreateSpaceOverwrite(c, current) ==
    WriteResult(TRUE, NoErr, MapInsert(current, c.space, EmptyMap))

ComputeCreateSpace(c, current) ==
    IF c.space \in DOMAIN current
    THEN WriteResult(FALSE, ServerError("SpaceAlreadyExists", c.space), current)
    ELSE WriteResult(TRUE, NoErr, MapInsert(current, c.space, EmptyMap))

ComputeWrite(c, current) ==
    CASE c.op = "Set" -> ComputeSet(c, current)
      [] c.op = "Delete" -> ComputeDelete(c, current)
      [] c.op = "DeleteSpace" -> ComputeDeleteSpace(c, current)
      [] c.op = "CreateSpace" -> ComputeCreateSpace(c, current)

\* ------------------------------------------------ Db::apply_command_to_store
\* A replay in which only CreateSpace makes a space, and a CreateSpace of an
\* existing space keeps it.
ApplyStrict(store, c) ==
    CASE c.op = "Set" ->
            IF c.space \in DOMAIN store THEN ComputeSet(c, store).store ELSE store
      [] c.op \in {"Delete", "DeleteSpace", "CreateSpace"} -> ComputeWrite(c, store).store
      [] OTHER -> store

\* A replay that applies the rules of the live publish step, keeping the
\* Store where that step returns a state error.
ApplyAsLive(store, c) ==
    CASE c.op \in {"Set", "Delete", "DeleteSpace", "CreateSpace"} ->
            ComputeWrite(c, store).store
      [] OTHER -> store

apply_command_to_store(store, c) ==
    CASE c.op = "Set" ->
            LET hashed_key == HashedKey(c.key)
                space_data == IF c.space \in DOMAIN store
                              THEN store[c.space] ELSE EmptyMap
                updated_space == MapInsert(space_data, hashed_key, c.value)
            IN  MapInsert(store, c.space, updated_space)
      [] c.op = "Delete" ->
            IF c.space \in DOMAIN store
            THEN MapInsert(store, c.space, MapRemove(store[c.space], HashedKey(c.key)))
            ELSE store
      [] c.op = "CreateSpace" -> MapInsert(store, c.space, EmptyMap)
      [] c.op = "DeleteSpace" -> MapRemove(store, c.space)
      [] OTHER -> store

\* ------------------------------------------------------------- byte streams
\* A byte stream is a sequence of runs <<n, b>>, n >= 1.
Byte(b) == <<1, b>>

RECURSIVE Size(_)
Size(buf) == IF buf = <<>> THEN 0 ELSE Head(buf)[1] + Size(Tail(buf))

\* to_le_bytes of n on w bytes.  Every length of the model is below 2^31,
\* so the cast to u32 never truncates.
ToLeBytes(n, w) == [i \in 1..w |-> Byte((n \div (256 ^ (i - 1))) % 256)]

\* read_exact of n bytes from the front of buf: the bytes and the rest, or
\* UnexpectedEof when buf holds fewer than n bytes.
RECURSIVE ReadExact(_, _)
ReadExact(buf, n) ==
    IF n = 0 THEN [ok |-> TRUE, got |-> <<>>, rest |-> buf]
    ELSE IF buf = <<>> THEN [ok |-> FALSE, got |-> <<>>, rest |-> <<>>]
    ELSE LET h == Head(buf)
         IN  IF h[1] > n
             THEN [ok |-> TRUE, got |-> <<Str(n, h[2])>>,
                   rest |-> <<Str(h[1] - n, h[2])>> \o Tail(buf)]
             ELSE LET r == ReadExact(Tail(buf), n - h[1])
                  IN  [ok |-> r.ok, got |-> <<h>> \o r.got, rest |-> r.rest]

\* The single bytes of a byte stream, in order.
RECURSIVE Bytes(_)
Bytes(buf) ==
    IF buf = <<>> THEN <<>>
    ELSE LET h == Head(buf)
         IN  IF h[1] = 1 THEN <<h[2]>> \o Bytes(Tail(buf))
             ELSE <<h[2]>> \o Bytes(<<Str(h[1] - 1, h[2])>> \o Tail(buf))

\* from_le_bytes of a short byte stream.
RECURSIVE LeValue(_)
LeValue(bs) == IF bs = <<>> THEN 0 ELSE Head(bs) + 256 * LeValue(Tail(bs))
FromLeBytes(buf) == LeValue(Bytes(buf))

\* ------------------------------------------- bincode, standard configuration
\* Variable-length integers: one byte below 251, else a marker byte and the
\* little-endian value (251: u16, 252: u32).  Lengths of the model stay
\* below 2^31, so the u64 and u128 markers are never written.
VarintEncode(n) ==
    IF n < 251 THEN <<Byte(n)>>
    ELSE IF n < 65536 THEN <<Byte(251)>> \o ToLeBytes(n, 2)
    ELSE <<Byte(252)>> \o ToLeBytes(n, 4)

DecodeFail == [ok |-> FALSE, val |-> 0, rest |-> <<>>]

VarintWide(r) ==
    IF ~r.ok THEN DecodeFail
    ELSE [ok |-> TRUE, val |-> FromLeBytes(r.got), rest |-> r.rest]

VarintAfterMarker(b, rest) ==
    IF b < 251 THEN [ok |-> TRUE, val |-> b, rest |-> rest]
    ELSE IF b = 251 THEN VarintWide(ReadExact(rest, 2))
    ELSE IF b = 252 THEN VarintWide(ReadExact(rest, 4))
    ELSE DecodeFail

VarintMarker(m) ==
    IF ~m.ok THEN DecodeFail ELSE VarintAfterMarker(FromLeBytes(m.got), m.rest)

VarintDecode(buf) == VarintMarker(ReadExact(buf, 1))

\* A String or Vec<u8>: the length, then the bytes.
EncodeStr(s) == VarintEncode(StrLen(s)) \o (IF StrLen(s) = 0 THEN <<>> ELSE <<s>>)

\* The decoded string is a value of the model when its bytes are all equal.
StrFail == [ok |-> FALSE, val |-> EmptyStr, rest |-> <<>>]

DecodeStrBytes(len, r) ==
    IF ~r.ok \/ Cardinality({r.got[i][2] : i \in DOMAIN r.got}) > 1 THEN StrFail
    ELSE [ok |-> TRUE,
          val |-> IF len = 0 THEN EmptyStr ELSE Str(len, r.got[1][2]),
          rest |-> r.rest]

DecodeStrLen(n) ==
    IF ~n.ok THEN StrFail ELSE DecodeStrBytes(n.val, ReadExact(n.rest, n.val))

DecodeStr(buf) == DecodeStrLen(VarintDecode(buf))

\* Command variants in declaration order (proto/mod.rs) and their fields.
Variants ==
    <<"Get", "Set", "Delete", "ListSpaces", "ListKeys", "DeleteSpace",
      "CreateSpace", "IsSpaceExists">>
VariantIndex(op) == (CHOOSE i \in DOMAIN Variants : Variants[i] = op) - 1
HasSpace(op) == op # "ListSpaces"
HasKey(op) == op \in {"Get", "Set", "Delete"}
HasValue(op) == op = "Set"

EncodeCommand(c) ==
    VarintEncode(VariantIndex(c.op))
        \o (IF HasSpace(c.op) THEN EncodeStr(c.space) ELSE <<>>)
        \o (IF HasKey(c.op) THEN EncodeStr(c.key) ELSE <<>>)
        \o (IF HasValue(c.op) THEN EncodeStr(c.value) ELSE <<>>)

\* decode_from_slice: the command at the front of the payload; bytes after it
\* are ignored.  The variant index, then the fields of the variant in order.
CmdFail == [ok |-> FALSE, cmd |-> NoCmd]

DecodeField(present, buf) ==
    IF present THEN DecodeStr(buf) ELSE [ok |-> TRUE, val |-> EmptyStr, rest |-> buf]

DecodeValueField(op, space, key, x) ==
    IF ~x.ok THEN CmdFail ELSE [ok |-> TRUE, cmd |-> Cmd(op, space, key, x.val)]

DecodeKeyField(op, space, k) ==
    IF ~k.ok THEN CmdFail
    ELSE DecodeValueField(op, space, k.val, DecodeField(HasValue(op), k.rest))

DecodeSpaceField(op, s) ==
    IF ~s.ok THEN CmdFail
    ELSE DecodeKeyField(op, s.val, DecodeField(HasKey(op), s.rest))

DecodeVariant(v) ==
    IF ~v.ok \/ v.val >= Len(Variants) THEN CmdFail
    ELSE DecodeSpaceField(Variants[v.val + 1],
                          DecodeField(HasSpace(Variants[v.val + 1]), v.rest))

DecodeCommand(payload) == DecodeVariant(VarintDecode(payload))

\* A length prefix that counts its own four bytes.
FrameLenWithPrefix(c) ==
    ToLeBytes(Size(EncodeCommand(c)) + 4, 4) \o EncodeCommand(c)

\* aof_writer_task, one record: the length prefix, then the payload.
Frame(c) ==
    LET serialized == EncodeCommand(c)
    IN  ToLeBytes(Size(serialized), 4) \o serialized

\* ------------------------------------------------------ Db::restore_from_aof
\* The loop over the file: ok is FALSE when the payload of a record is cut
\* short (AofReadFailed); a cut inside the length prefix ends the loop.  A
\* payload that does not decode leaves the Store as it is.
RECURSIVE RestoreLoop(_, _)

\* A payload that does not decode empties the Store being built.
RestoreApplyReset(d, store) ==
    IF d.ok THEN apply_command_to_store(store, d.cmd) ELSE EmptyMap

RestoreApply(d, store) ==
    IF d.ok THEN apply_command_to_store(store, d.cmd) ELSE store

RestorePayload(command_bytes, store) ==
    IF ~command_bytes.ok THEN [ok |-> FALSE, store |-> store]
    ELSE RestoreLoop(command_bytes.rest,
                     RestoreApply(DecodeCommand(command_bytes.got), store))

RestoreLength(len_bytes, store) ==
    IF ~len_bytes.ok THEN [ok |-> TRUE, store |-> store]
    ELSE RestorePayload(ReadExact(len_bytes.rest, FromLeBytes(len_bytes.got)), store)

RestoreLoop(buf, store) == RestoreLength(ReadExact(buf, 4), store)

restore_from_aof(file) == RestoreLoop(file, EmptyMap)

\* Db::new: the restored Store, or a fresh one when restoring failed.
UnwrapOrFresh(r) == IF r.ok THEN r.store ELSE EmptyMap
InitialStore(file) == UnwrapOrFresh(restore_from_aof(file))

\* ------------------------------------------------------------ the machine
Return(t, c, r) == [task |-> t, cmd |-> c, resp |-> r]
NoRet == Return(0, NoCmd, NoResp)

\* The AOF files an engine may be constructed on: none, or the records an
\* earlier run of the engine wrote.
InitialLogs ==
    { <<>>,
      <<CreateSpace(SpaceA), Set(SpaceA, KeyK, Val1)>> }

\* The keys the claims count as listed: those Set, and not Deleted since, in
\* each space since it came into existence; c is a write that returned Ok.
LiveStep(l, c) ==
    CASE c.op = "Set" ->
            MapInsert(l, c.space,
                      (IF c.space \in DOMAIN l THEN l[c.space] ELSE {}) \cup {c.key})
      [] c.op = "Delete" -> MapInsert(l, c.space, l[c.space] \ {c.key})
      [] c.op = "DeleteSpace" -> MapRemove(l, c.space)
      [] c.op = "CreateSpace" -> MapInsert(l, c.space, {})

RECURSIVE LiveAfter(_, _)
LiveAfter(l, log) ==
    IF log = <<>> THEN l ELSE LiveAfter(LiveStep(l, Head(log)), Tail(log))

\* The keys held by the Store a new engine starts from.
LiveOf(store) == [s \in DOMAIN store |-> {hk.key : hk \in DOMAIN store[s]}]

\* No connection is served.
\* impl Default for ClientBuilder.
ClientBuilderDefault == [max_pool_size |-> 1, server_addr |-> 0, aof_path |-> 0]
NothingMade == [call |-> "new", outcome |-> "Ok", clients |-> {}, opened |-> {}]

\* The pool as Pool::builder(manager).build() leaves it: no connection yet.
Conns == 1..MaxPoolSize
NoAcquire == [conn |-> 0, fresh |-> FALSE, probe |-> "None", was |-> "none", outcome |-> "None"]
NoCall == [cmd |-> NoCmd, want |-> NoResp, ok |-> FALSE, err |-> "None", resp |-> NoResp]
PoolIdle ==
    /\ sock = [c \in Conns |-> "none"]
    /\ slots = <<>>
    /\ held = {}
    /\ acquired = NoAcquire
    /\ gets = 0
    /\ builder = ClientBuilderDefault
    /\ made = NothingMade
    /\ unread = [c \in Conns |-> <<>>]
    /\ call = NoCall

NetIdle ==
    /\ stream = <<>>
    /\ hpc = "off"
    /\ command = NoCmd
    /\ response = NoResp
    /\ result = "None"
    /\ outbox = <<>>
    /\ script = <<>>
    /\ executed = <<>>
    /\ PoolIdle

RECURSIVE Frames(_)
Frames(log) == IF log = <<>> THEN <<>> ELSE Frame(Head(log)) \o Frames(Tail(log))

\* Db::new: the Store restored from the file, the writer task spawned.
Init ==
    /\ \E log \in InitialLogs :
          /\ aof = Frames(log)
          /\ written = log
          /\ data = InitialStore(Frames(log))
          /\ linear = InitialStore(Frames(log))
          /\ live = LiveAfter(EmptyMap, log)
    /\ ptr = 0
    /\ chan = <<>>
    /\ writer = "open"
    /\ pc = [t \in Tasks |-> "idle"]
    /\ cmd = [t \in Tasks |-> NoCmd]
    /\ db_snapshot = [t \in Tasks |-> EmptyMap]
    /\ current_data_ptr = [t \in Tasks |-> 0]
    /\ new_data = [t \in Tasks |-> EmptyMap]
    /\ ret = NoRet
    /\ issued = 0
    /\ epoch = 0
    /\ seen = [t \in Tasks |-> {}]
    /\ overlapped = FALSE
    /\ torn = <<>>
    /\ NetIdle

\* A task calls execute.
Begin(t) ==
    /\ pc[t] = "idle"
    /\ issued < MaxCmds
    /\ issued' = issued + 1
    /\ overlapped' = (overlapped \/ \E u \in Tasks \ {t} : pc[u] # "idle")

\* A store that does not compare.
PtrEqAlways(loaded, current) == TRUE

\* A comparison that never finds the loaded pointer.
PtrEqNever(loaded, current) == FALSE

\* Arc::ptr_eq of the loaded pointer and the one compare_and_swap found.
PtrEq(loaded, current) == loaded = current

\* execute, a read command: the single load of the Store pointer.
ExecuteRead(t, c) ==
    /\ c \in ReadCommands
    /\ Begin(t)
    /\ pc' = [pc EXCEPT ![t] = "read"]
    /\ cmd' = [cmd EXCEPT ![t] = c]
    /\ db_snapshot' = [db_snapshot EXCEPT ![t] = data]
    /\ seen' = [seen EXCEPT ![t] = {data}]
    /\ ret' = NoRet
    /\ UNCHANGED <<data, ptr, chan, aof, writer, current_data_ptr, new_data, epoch,
                   written, linear>>
    /\ UNCHANGED <<live, torn, netVars>>

\* execute, a read command: the response computed from the snapshot.
ReadReturn(t) ==
    /\ pc[t] = "read"
    /\ ret' = Return(t, cmd[t], ReadResponse(cmd[t], db_snapshot[t]))
    /\ pc' = [pc EXCEPT ![t] = "idle"]
    /\ cmd' = [cmd EXCEPT ![t] = NoCmd]
    /\ db_snapshot' = [db_snapshot EXCEPT ![t] = EmptyMap]
    /\ seen' = [seen EXCEPT ![t] = {}]
    /\ UNCHANGED <<data, ptr, chan, aof, writer, current_data_ptr, new_data, issued,
                   epoch, overlapped, written, linear>>
    /\ UNCHANGED <<live, torn, netVars>>

\* handle_write: validation fails and the call returns at once.
HandleWriteInvalid(t, c) ==
    /\ c \in WriteCommands
    /\ ~validate_command(c).ok
    /\ Begin(t)
    /\ ret' = Return(t, c, RError(validate_command(c).err))
    /\ UNCHANGED <<data, ptr, chan, aof, writer, pc, cmd, db_snapshot,
                   current_data_ptr, new_data, epoch, seen, written, linear>>
    /\ UNCHANGED <<live, torn, netVars>>

\* A send that succeeds although the receiver is gone.
HandleWriteSendAlways(t, c) ==
    /\ c \in WriteCommands
    /\ validate_command(c).ok
    /\ Len(chan) < AofChannelCap
    /\ Begin(t)
    /\ chan' = Append(chan, c)
    /\ pc' = [pc EXCEPT ![t] = "load"]
    /\ cmd' = [cmd EXCEPT ![t] = c]
    /\ ret' = NoRet
    /\ UNCHANGED <<data, ptr, aof, writer, db_snapshot, current_data_ptr, new_data,
                   epoch, seen, written, linear>>
    /\ UNCHANGED <<live, torn, netVars>>

\* A send into a channel without a capacity.
HandleWriteSendUnbounded(t, c) ==
    /\ c \in WriteCommands
    /\ validate_command(c).ok
    /\ writer # "dead"
    /\ Begin(t)
    /\ chan' = Append(chan, c)
    /\ pc' = [pc EXCEPT ![t] = "load"]
    /\ cmd' = [cmd EXCEPT ![t] = c]
    /\ ret' = NoRet
    /\ UNCHANGED <<data, ptr, aof, writer, db_snapshot, current_data_ptr, new_data,
                   epoch, seen, written, linear>>
    /\ UNCHANGED <<live, torn, netVars>>

\* handle_write: validation passes and aof_sender.send enqueues the command;
\* send waits while the channel is full.
HandleWriteSend(t, c) ==
    /\ c \in WriteCommands
    /\ validate_command(c).ok
    /\ writer # "dead"
    /\ Len(chan) < AofChannelCap
    /\ Begin(t)
    /\ chan' = Append(chan, c)
    /\ pc' = [pc EXCEPT ![t] = "load"]
    /\ cmd' = [cmd EXCEPT ![t] = c]
    /\ ret' = NoRet
    /\ UNCHANGED <<data, ptr, aof, writer, db_snapshot, current_data_ptr, new_data,
                   epoch, seen, written, linear>>
    /\ UNCHANGED <<live, torn, netVars>>

\* handle_write: validation passes and send finds the receiver gone.
HandleWriteSendFailed(t, c) ==
    /\ c \in WriteCommands
    /\ validate_command(c).ok
    /\ writer = "dead"
    /\ Begin(t)
    /\ ret' = Return(t, c, RError(ServerError("AofWriteFailed", EmptyStr)))
    /\ UNCHANGED <<data, ptr, chan, aof, writer, pc, cmd, db_snapshot,
                   current_data_ptr, new_data, epoch, seen, written, linear>>
    /\ UNCHANGED <<live, torn, netVars>>

\* A pass of the loop that sends the command again.
LoadAndComputeResend(t) ==
    /\ pc[t] = "load"
    /\ chan' = Append(chan, cmd[t])
    /\ LET r == ComputeWrite(cmd[t], data)
       IN  IF r.ok
           THEN /\ current_data_ptr' = [current_data_ptr EXCEPT ![t] = ptr]
                /\ new_data' = [new_data EXCEPT ![t] = r.store]
                /\ pc' = [pc EXCEPT ![t] = "cas"]
                /\ cmd' = cmd
                /\ ret' = NoRet
           ELSE /\ ret' = Return(t, cmd[t], RError(r.err))
                /\ pc' = [pc EXCEPT ![t] = "idle"]
                /\ cmd' = [cmd EXCEPT ![t] = NoCmd]
                /\ UNCHANGED <<current_data_ptr, new_data>>
    /\ UNCHANGED <<data, ptr, aof, writer, db_snapshot, issued, epoch, seen,
                   overlapped, written, linear>>
    /\ UNCHANGED <<live, torn, netVars>>

\* handle_write: one pass of the loop up to the compare-and-swap; a state
\* error returns from inside the loop.
LoadAndCompute(t) ==
    /\ pc[t] = "load"
    /\ LET r == ComputeWrite(cmd[t], data)
       IN  IF r.ok
           THEN /\ current_data_ptr' = [current_data_ptr EXCEPT ![t] = ptr]
                /\ new_data' = [new_data EXCEPT ![t] = r.store]
                /\ pc' = [pc EXCEPT ![t] = "cas"]
                /\ cmd' = cmd
                /\ ret' = NoRet
           ELSE /\ ret' = Return(t, cmd[t], RError(r.err))
                /\ pc' = [pc EXCEPT ![t] = "idle"]
                /\ cmd' = [cmd EXCEPT ![t] = NoCmd]
                /\ UNCHANGED <<current_data_ptr, new_data>>
    /\ UNCHANGED <<data, ptr, chan, aof, writer, db_snapshot, issued, epoch, seen,
                   overlapped, written, linear>>
    /\ UNCHANGED <<live, torn, netVars>>

\* handle_write: compare_and_swap; Ok when it swapped, another pass when not.
CompareAndSwap(t) ==
    /\ pc[t] = "cas"
    /\ IF PtrEq(current_data_ptr[t], ptr)
       THEN /\ data' = new_data[t]
            /\ ptr' = ptr + 1
            /\ ret' = Return(t, cmd[t], ROk)
            /\ pc' = [pc EXCEPT ![t] = "idle"]
            /\ cmd' = [cmd EXCEPT ![t] = NoCmd]
            /\ seen' = [u \in Tasks |->
                           IF pc[u] = "read" THEN seen[u] \cup {new_data[t]} ELSE seen[u]]
            /\ linear' = ComputeWrite(cmd[t], linear).store
            /\ live' = LiveStep(live, cmd[t])
       ELSE /\ pc' = [pc EXCEPT ![t] = "load"]
            /\ ret' = NoRet
            /\ UNCHANGED <<data, ptr, cmd, seen, linear, live>>
    /\ new_data' = [new_data EXCEPT ![t] = EmptyMap]
    /\ current_data_ptr' = [current_data_ptr EXCEPT ![t] = 0]
    /\ UNCHANGED <<chan, aof, writer, db_snapshot, issued, epoch, overlapped, written>>
    /\ UNCHANGED <<torn, netVars>>

\* aof_writer_task: the file opened for appending.
AofWriterOpen ==
    /\ writer = "open"
    /\ writer' = "run"
    /\ ret' = NoRet
    /\ UNCHANGED <<data, ptr, chan, aof, pc, cmd, db_snapshot, current_data_ptr,
                   new_data, issued, epoch, seen, overlapped, written, linear>>
    /\ UNCHANGED <<live, torn, netVars>>

\* aof_writer_task: the open failed; the task returns and drops the receiver
\* with whatever was queued.
AofWriterOpenFailed ==
    /\ writer = "open"
    /\ writer' = "dead"
    /\ chan' = <<>>
    /\ ret' = NoRet
    /\ UNCHANGED <<data, ptr, aof, pc, cmd, db_snapshot, current_data_ptr, new_data,
                   issued, epoch, seen, overlapped, written, linear>>
    /\ UNCHANGED <<live, torn, netVars>>

\* A writer that takes the newest command of the queue.
AofWriterWriteNewest ==
    /\ writer = "run"
    /\ chan # <<>>
    /\ aof' = aof \o Frame(chan[Len(chan)])
    /\ chan' = SubSeq(chan, 1, Len(chan) - 1)
    /\ written' = Append(written, chan[Len(chan)])
    /\ ret' = NoRet
    /\ UNCHANGED <<data, ptr, writer, pc, cmd, db_snapshot, current_data_ptr, new_data,
                   issued, epoch, seen, overlapped, linear>>
    /\ UNCHANGED <<live, torn, netVars>>

\* aof_writer_task: one received command framed, appended and flushed.
AofWriterWrite ==
    /\ writer = "run"
    /\ chan # <<>>
    /\ aof' = aof \o Frame(Head(chan))
    /\ chan' = Tail(chan)
    /\ written' = Append(written, Head(chan))
    /\ ret' = NoRet
    /\ UNCHANGED <<data, ptr, writer, pc, cmd, db_snapshot, current_data_ptr, new_data,
                   issued, epoch, seen, overlapped, linear>>
    /\ UNCHANGED <<live, torn, netVars>>

\* The engine is dropped between commands and Db::new runs on the same path;
\* what was still queued is lost with the process.
Restart ==
    /\ epoch < MaxRestarts
    /\ \A t \in Tasks : pc[t] = "idle"
    /\ epoch' = epoch + 1
    /\ data' = InitialStore(aof)
    /\ ptr' = 0
    /\ chan' = <<>>
    /\ writer' = "open"
    /\ ret' = NoRet
    /\ overlapped' = FALSE
    /\ linear' = InitialStore(aof)
    /\ UNCHANGED <<aof, pc, cmd, db_snapshot, current_data_ptr, new_data, issued, seen,
                   written>>
    /\ live' = LiveOf(InitialStore(aof))
    /\ UNCHANGED <<torn, netVars>>

Next ==
    \/ \E t \in Tasks : \E c \in ReadCommands : ExecuteRead(t, c)
    \/ \E t \in Tasks : ReadReturn(t)
    \/ \E t \in Tasks : \E c \in WriteCommands : HandleWriteInvalid(t, c)
    \/ \E t \in Tasks : \E c \in WriteCommands : HandleWriteSend(t, c)
    \/ \E t \in Tasks : \E c \in WriteCommands : HandleWriteSendFailed(t, c)
    \/ \E t \in Tasks : LoadAndCompute(t)
    \/ \E t \in Tasks : CompareAndSwap(t)
    \/ AofWriterOpen
    \/ AofWriterOpenFailed
    \/ AofWriterWrite
    \/ Restart

Spec == Init /\ [][Next]_vars

\* ------------------------------------------------ bincode of a Response
\* Response and ServerError variants in declaration order.
ResponseVariants == <<"Ok", "Value", "Keys", "Spaces", "Bool", "Error">>
ErrorVariants ==
    <<"SpaceNotFound", "KeyNotFound", "SpaceAlreadyExists", "AofWriteFailed",
      "AofReadFailed", "InvalidKey", "InvalidSpaceName", "ValueTooLarge">>
IndexIn(names, x) == (CHOOSE i \in DOMAIN names : names[i] = x) - 1
\* How many String fields the variant carries (the model keeps the first).
ErrorFields(kind) ==
    IF kind = "KeyNotFound" THEN 2
    ELSE IF kind \in {"SpaceNotFound", "SpaceAlreadyExists", "InvalidKey"} THEN 1
    ELSE 0

\* The Vec of a bag of names, in one of its orders.
StrRank(s) == StrLen(s) * 256 + s[2]
FirstOf(bag) ==
    CHOOSE s \in BagToSet(bag) : \A u \in BagToSet(bag) : StrRank(s) <= StrRank(u)
RECURSIVE SeqOfBag(_)
SeqOfBag(bag) ==
    IF BagToSet(bag) = {} THEN <<>>
    ELSE <<FirstOf(bag)>> \o SeqOfBag(bag (-) SetToBag({FirstOf(bag)}))

RECURSIVE EncodeStrs(_)
EncodeStrs(ss) ==
    IF ss = <<>> THEN <<>> ELSE EncodeStr(Head(ss)) \o EncodeStrs(Tail(ss))

EncodeNames(bag) == VarintEncode(BagCardinality(bag)) \o EncodeStrs(SeqOfBag(bag))
EncodeOption(opt) ==
    IF opt = <<>> THEN <<Byte(0)>> ELSE <<Byte(1)>> \o EncodeStr(opt[1])
EncodeError(e) ==
    VarintEncode(IndexIn(ErrorVariants, e.kind))
        \o (IF ErrorFields(e.kind) >= 1 THEN EncodeStr(e.name) ELSE <<>>)
        \o (IF ErrorFields(e.kind) = 2 THEN EncodeStr(EmptyStr) ELSE <<>>)

EncodeResponse(r) ==
    VarintEncode(IndexIn(ResponseVariants, r.tag))
        \o (CASE r.tag = "Value" -> EncodeOption(r.val)
              [] r.tag \in {"Keys", "Spaces"} -> EncodeNames(r.items)
              [] r.tag = "Bool" -> <<Byte(IF r.flag THEN 1 ELSE 0)>>
              [] r.tag = "Error" -> EncodeError(r.err)
              [] OTHER -> <<>>)

RespFail == [ok |-> FALSE, resp |-> NoResp]
RespOk(r) == [ok |-> TRUE, resp |-> r]

DecodeSome(s) == IF ~s.ok THEN RespFail ELSE RespOk(RValue(<<s.val>>))
DecodeOptionTag(b, rest) ==
    IF b = 0 THEN RespOk(RValue(<<>>))
    ELSE IF b = 1 THEN DecodeSome(DecodeStr(rest))
    ELSE RespFail
DecodeOption(m) ==
    IF ~m.ok THEN RespFail ELSE DecodeOptionTag(FromLeBytes(m.got), m.rest)

RECURSIVE DecodeNamesLoop(_, _, _)
DecodeNamesNext(n, s, bag) ==
    IF ~s.ok THEN [ok |-> FALSE, val |-> EmptyBag]
    ELSE DecodeNamesLoop(n - 1, s.rest, bag (+) SetToBag({s.val}))
DecodeNamesLoop(n, buf, bag) ==
    IF n = 0 THEN [ok |-> TRUE, val |-> bag]
    ELSE DecodeNamesNext(n, DecodeStr(buf), bag)
DecodeNamesLen(n) ==
    IF ~n.ok THEN [ok |-> FALSE, val |-> EmptyBag]
    ELSE DecodeNamesLoop(n.val, n.rest, EmptyBag)
DecodeNames(tag, x) ==
    IF ~x.ok THEN RespFail
    ELSE RespOk(IF tag = "Keys" THEN RKeys(x.val) ELSE RSpaces(x.val))

DecodeBoolTag(b) == IF b \in {0, 1} THEN RespOk(RBool(b = 1)) ELSE RespFail
DecodeBool(m) == IF ~m.ok THEN RespFail ELSE DecodeBoolTag(FromLeBytes(m.got))

DecodeErrorSecond(kind, name, s) ==
    IF ~s.ok THEN RespFail ELSE RespOk(RError(ServerError(kind, name)))
DecodeErrorFirst(kind, s) ==
    IF ~s.ok THEN RespFail
    ELSE DecodeErrorSecond(kind, s.val, DecodeField(ErrorFields(kind) = 2, s.rest))
DecodeErrorKind(v) ==
    IF ~v.ok \/ v.val >= Len(ErrorVariants) THEN RespFail
    ELSE DecodeErrorFirst(ErrorVariants[v.val + 1],
                          DecodeField(ErrorFields(ErrorVariants[v.val + 1]) >= 1, v.rest))

DecodeResponseBody(tag, rest) ==
    CASE tag = "Ok" -> RespOk(ROk)
      [] tag = "Value" -> DecodeOption(ReadExact(rest, 1))
      [] tag \in {"Keys", "Spaces"} -> DecodeNames(tag, DecodeNamesLen(VarintDecode(rest)))
      [] tag = "Bool" -> DecodeBool(ReadExact(rest, 1))
      [] tag = "Error" -> DecodeErrorKind(VarintDecode(rest))

DecodeResponseVariant(v) ==
    IF ~v.ok \/ v.val >= Len(ResponseVariants) THEN RespFail
    ELSE DecodeResponseBody(ResponseVariants[v.val + 1], v.rest)

DecodeResponse(payload) == DecodeResponseVariant(VarintDecode(payload))

\* ------------------------------------------------- construction on any file
\* Records a file may hold: frames of commands, reads among them, and frames
\* whose payload is no Command (no such variant; empty; a string cut short).
RawFrame(payload) == ToLeBytes(Size(payload), 4) \o payload

GarbagePayloads == { <<Byte(9)>>, <<>>, <<Byte(1), Byte(5), Byte(97)>> }

RecoveryCommands ==
    { CreateSpace(SpaceA), Set(SpaceA, KeyK, Val1), DeleteSpace(SpaceA),
      Get(SpaceA, KeyK), ListSpaces }

RecoveryRecords ==
    {[cmd |-> c, bytes |-> Frame(c)] : c \in RecoveryCommands}
        \cup {[cmd |-> NoCmd, bytes |-> RawFrame(g)] : g \in GarbagePayloads}

RecordSeqs == UNION {[1..n -> RecoveryRecords] : n \in 0..MaxRecords}

\* A record cut short by the end of the file: inside the length prefix, after
\* it, or inside the payload.
TornTails ==
    {ReadExact(Frame(Set(SpaceA, KeyJ, Val1)), n).got : n \in {0, 2, 4, 7}}

RECURSIVE FileOf(_)
FileOf(rs) == IF rs = <<>> THEN <<>> ELSE Head(rs).bytes \o FileOf(Tail(rs))

\* Db::new on a file that anything may have written.
InitRecover ==
    /\ \E rs \in RecordSeqs : \E tl \in TornTails :
          /\ aof = FileOf(rs) \o tl
          /\ torn = tl
          /\ written = [i \in DOMAIN rs |-> rs[i].cmd]
          /\ data = InitialStore(FileOf(rs) \o tl)
          /\ linear = InitialStore(FileOf(rs) \o tl)
          /\ live = LiveOf(InitialStore(FileOf(rs) \o tl))
    /\ ptr = 0
    /\ chan = <<>>
    /\ writer = "open"
    /\ pc = [t \in Tasks |-> "idle"]
    /\ cmd = [t \in Tasks |-> NoCmd]
    /\ db_snapshot = [t \in Tasks |-> EmptyMap]
    /\ current_data_ptr = [t \in Tasks |-> 0]
    /\ new_data = [t \in Tasks |-> EmptyMap]
    /\ ret = NoRet
    /\ issued = 0
    /\ epoch = 0
    /\ seen = [t \in Tasks |-> {}]
    /\ overlapped = FALSE
    /\ NetIdle

\* One task reads the restored Store; the engine may be constructed again.
NextRecover ==
    \/ \E c \in ReadCommands : ExecuteRead(1, c)
    \/ ReadReturn(1)
    \/ Restart

SpecRecover == InitRecover /\ [][NextRecover]_vars

\* An engine constructed on such a file of at most one record executes
\* Sets, one after another, and is constructed again.
RewriteCommands == {Set(SpaceA, KeyJ, ValMax), Set(SpaceB, KeyK, Val1)}

InitRewrite == InitRecover /\ Len(written) <= 1

NextRewrite ==
    \/ \E c \in RewriteCommands : HandleWriteSend(1, c)
    \/ LoadAndCompute(1)
    \/ CompareAndSwap(1)
    \/ AofWriterOpen
    \/ AofWriterWrite
    \/ Restart

SpecRewrite == InitRewrite /\ [][NextRewrite]_vars

\* ---------------------------------------------- red-db-server, a connection
\* write_response: the length prefix, then the encoded response.
ResponseFrame(r) ==
    LET encoded == EncodeResponse(r)
    IN  ToLeBytes(Size(encoded), 4) \o encoded

\* read_command: Some(command), None at the end of the stream, or the
\* ConnectionError.  The stream is what the client sent before it closed.
ReadNone == [kind |-> "None", err |-> "None", cmd |-> NoCmd, rest |-> <<>>]
ReadErr(e) == [kind |-> "Err", err |-> e, cmd |-> NoCmd, rest |-> <<>>]

ReadDecoded(d, rest) ==
    IF d.ok THEN [kind |-> "Some", err |-> "None", cmd |-> d.cmd, rest |-> rest]
    ELSE ReadErr("Protocol")

ReadPayload(cmd_buf) ==
    IF ~cmd_buf.ok THEN ReadErr("Io")
    ELSE ReadDecoded(DecodeCommand(cmd_buf.got), cmd_buf.rest)

\* A frame of any length is read.
ReadLenNoLimit(len, rest) == ReadPayload(ReadExact(rest, len))

ReadLen(len, rest) ==
    IF len > 1024 * 1024 THEN ReadErr("CommandTooLarge")
    ELSE ReadPayload(ReadExact(rest, len))

ReadPrefix(len_buf) ==
    IF ~len_buf.ok THEN ReadNone ELSE ReadLen(FromLeBytes(len_buf.got), len_buf.rest)

read_command(s) == ReadPrefix(ReadExact(s, 4))

\* Db::execute as the only caller of the engine sees it: the response, the
\* Store it leaves published, whether the command was enqueued and whether a
\* Store was published.
IsRead(c) == c.op \in {"Get", "ListKeys", "ListSpaces", "IsSpaceExists"}

Executed(resp, store, sent, published) ==
    [resp |-> resp, store |-> store, sent |-> sent, published |-> published]

ExecuteWrite(c, r) ==
    IF r.ok THEN Executed(ROk, r.store, TRUE, TRUE)
    ELSE Executed(RError(r.err), r.store, TRUE, FALSE)

execute(c, store, closed) ==
    IF IsRead(c) THEN Executed(ReadResponse(c, store), store, FALSE, FALSE)
    ELSE IF ~validate_command(c).ok
    THEN Executed(RError(validate_command(c).err), store, FALSE, FALSE)
    ELSE IF closed
    THEN Executed(RError(ServerError("AofWriteFailed", EmptyStr)), store, FALSE, FALSE)
    ELSE ExecuteWrite(c, ComputeWrite(c, store))

\* TcpConnection::send_command: the frame of a command.
send_command(c) ==
    LET encoded == EncodeCommand(c)
    IN  ToLeBytes(Size(encoded), 4) \o encoded

\* What a client puts on the connection: frames of commands, frames that
\* break the protocol, and at the end possibly a frame cut short by the close.
Item(kind, c, bytes) == [kind |-> kind, cmd |-> c, bytes |-> bytes]

SentCommands ==
    { Set(SpaceA, KeyK, Val1), Set(SpaceA, KeyK, ValMax), Set(SpaceA, KeyJ, ValOver),
      Set(SpaceA, EmptyStr, Val1), Get(SpaceA, KeyK), ListKeys(SpaceA), ListSpaces,
      CreateSpace(SpaceA), Delete(SpaceB, KeyK) }

CommandItems == {Item("command", c, send_command(c)) : c \in SentCommands}

RawItems ==
    { Item("oversized", NoCmd, ToLeBytes(1048577, 4) \o <<Byte(0)>>),
      Item("garbage", NoCmd, RawFrame(<<Byte(9)>>)) }

PartialItems ==
    {Item("partial", NoCmd, ReadExact(send_command(Get(SpaceA, KeyK)), n).got) :
        n \in {2, 6}}

Scripts ==
    {s \o tl : s \in UNION {[1..n -> CommandItems \cup RawItems] : n \in 0..MaxFrames},
               tl \in {<<>>} \cup {<<p>> : p \in PartialItems}}

\* run_server: the engine constructed, one connection accepted.
InitServer ==
    /\ \E log \in InitialLogs :
          /\ aof = Frames(log)
          /\ written = log
          /\ data = InitialStore(Frames(log))
          /\ linear = InitialStore(Frames(log))
          /\ live = LiveAfter(EmptyMap, log)
    /\ \E s \in Scripts :
          /\ script = s
          /\ stream = FileOf(s)
    /\ hpc = "read"
    /\ command = NoCmd
    /\ response = NoResp
    /\ result = "None"
    /\ outbox = <<>>
    /\ executed = <<>>
    /\ ptr = 0
    /\ chan = <<>>
    /\ writer = "open"
    /\ pc = [t \in Tasks |-> "idle"]
    /\ cmd = [t \in Tasks |-> NoCmd]
    /\ db_snapshot = [t \in Tasks |-> EmptyMap]
    /\ current_data_ptr = [t \in Tasks |-> 0]
    /\ new_data = [t \in Tasks |-> EmptyMap]
    /\ ret = NoRet
    /\ issued = 0
    /\ epoch = 0
    /\ seen = [t \in Tasks |-> {}]
    /\ overlapped = FALSE
    /\ torn = <<>>
    /\ PoolIdle

\* handle_connection: read_command.
ServerReadCommand ==
    /\ hpc = "read"
    /\ LET r == read_command(stream)
       IN  /\ command' = r.cmd
           /\ stream' = r.rest
           /\ hpc' = IF r.kind = "Some" THEN "execute" ELSE "done"
           /\ result' = IF r.kind = "Some" THEN "None"
                        ELSE IF r.kind = "None" THEN "Ok" ELSE r.err
    /\ ret' = NoRet
    /\ UNCHANGED <<data, ptr, chan, aof, writer, pc, cmd, db_snapshot, current_data_ptr,
                   new_data, issued, epoch, seen, overlapped, written, linear, live,
                   torn, response, outbox, script, executed, poolVars>>

\* handle_connection: db.execute(cmd).
ServerExecute ==
    /\ hpc = "execute"
    /\ LET x == execute(command, data, writer = "dead")
       IN  /\ response' = x.resp
           /\ data' = x.store
           /\ linear' = x.store
           /\ ptr' = IF x.published THEN ptr + 1 ELSE ptr
           /\ live' = IF x.published THEN LiveStep(live, command) ELSE live
           /\ chan' = IF x.sent THEN Append(chan, command) ELSE chan
           /\ executed' = Append(executed, [cmd |-> command, resp |-> x.resp])
           /\ ret' = Return(1, command, x.resp)
    /\ hpc' = "write"
    /\ UNCHANGED <<aof, writer, pc, cmd, db_snapshot, current_data_ptr, new_data, issued,
                   epoch, seen, overlapped, written, torn, stream, command, result,
                   outbox, script, poolVars>>

\* A handler that writes each response twice.
ServerWriteResponseTwice ==
    /\ hpc = "write"
    /\ outbox' = outbox \o ResponseFrame(response) \o ResponseFrame(response)
    /\ hpc' = "read"
    /\ command' = NoCmd
    /\ response' = NoResp
    /\ ret' = NoRet
    /\ UNCHANGED <<data, ptr, chan, aof, writer, pc, cmd, db_snapshot, current_data_ptr,
                   new_data, issued, epoch, seen, overlapped, written, linear, live,
                   torn, stream, result, script, executed, poolVars>>

\* handle_connection: write_response, then the next turn of the loop.
ServerWriteResponse ==
    /\ hpc = "write"
    /\ outbox' = outbox \o ResponseFrame(response)
    /\ hpc' = "read"
    /\ command' = NoCmd
    /\ response' = NoResp
    /\ ret' = NoRet
    /\ UNCHANGED <<data, ptr, chan, aof, writer, pc, cmd, db_snapshot, current_data_ptr,
                   new_data, issued, epoch, seen, overlapped, written, linear, live,
                   torn, stream, result, script, executed, poolVars>>

NextServer == ServerReadCommand \/ ServerExecute \/ ServerWriteResponse

SpecServer == InitServer /\ [][NextServer]_vars

\* TcpConnection::receive_response over the bytes the server wrote.
\* rest is what the call leaves unread on the stream: everything after the
\* frame, or after the length prefix when the length is refused; nothing
\* when the stream ended.
Received(ok, err, resp, rest) == [ok |-> ok, err |-> err, resp |-> resp, rest |-> rest]

ReceiveDecoded(d, rest) ==
    IF d.ok THEN Received(TRUE, "None", d.resp, rest)
    ELSE Received(FALSE, "Protocol", NoResp, rest)

ReceivePayload(response_buf) ==
    IF ~response_buf.ok THEN Received(FALSE, "Io", NoResp, <<>>)
    ELSE ReceiveDecoded(DecodeResponse(response_buf.got), response_buf.rest)

ReceiveLen(len, rest) ==
    IF len > 16 * 1024 * 1024 THEN Received(FALSE, "Protocol", NoResp, rest)
    ELSE ReceivePayload(ReadExact(rest, len))

ReceivePrefix(len_bytes) ==
    IF ~len_bytes.ok THEN Received(FALSE, "Io", NoResp, <<>>)
    ELSE ReceiveLen(FromLeBytes(len_bytes.got), len_bytes.rest)

receive_response(buf) == ReceivePrefix(ReadExact(buf, 4))

\* The results of the client's calls of execute, one after another, once the
\* handler has ended: a call whose response never comes fails, and so do the
\* calls after it.
RECURSIVE TcpResults(_, _)
TcpResultsNext(r, n) ==
    IF r.ok THEN <<[ok |-> TRUE, err |-> "None", resp |-> r.resp]>> \o TcpResults(r.rest, n - 1)
    ELSE [i \in 1..n |-> [ok |-> FALSE, err |-> r.err, resp |-> NoResp]]
TcpResults(buf, n) ==
    IF n = 0 THEN <<>> ELSE TcpResultsNext(receive_response(buf), n)

\* FileConnection::execute for each command in turn: Ok(db.execute(command)).
RECURSIVE EmbeddedResults(_, _)
EmbeddedResultsNext(x, cmds) ==
    <<[ok |-> TRUE, err |-> "None", resp |-> x.resp]>> \o EmbeddedResults(x.store, cmds)
EmbeddedResults(store, cmds) ==
    IF cmds = <<>> THEN <<>>
    ELSE EmbeddedResultsNext(execute(Head(cmds), store, FALSE), Tail(cmds))

\* ------------------------------------------------- red-db-client, the pool
\* The engine and the server connection, which the pool's steps leave alone.
engineVars ==
    <<data, ptr, chan, aof, writer, pc, cmd, db_snapshot, current_data_ptr, new_data,
      ret, issued, epoch, seen, overlapped, written, linear, live, torn>>
connVars == <<stream, hpc, command, response, result, outbox, script, executed>>

\* self.stream.try_read(&mut buf) on a socket in state s with a buffer of
\* buflen bytes.  It returns Ok(n) with n <= buflen, or an error (WouldBlock
\* when the socket is not flagged readable, or the socket's own error).  A
\* socket whose peer has closed is readable and reads 0 bytes.
try_read(s, buflen) ==
    {"Err", "Ok0"} \cup (IF buflen > 0 /\ s = "open" THEN {"OkN"} ELSE {})

\* TcpConnection::is_healthy: matches!(probe, Ok(0) | Err(_)).
is_healthy(probe) == probe \in {"Ok0", "Err"}

\* ConnectionManager::recycle.
recycle(probe) == IF is_healthy(probe) THEN "Ok" ELSE "Backend"

\* The connection a create() fills: the first one not in use.
FreeConn == CHOOSE c \in Conns :
                /\ sock[c] \in {"none", "dropped"}
                /\ \A d \in Conns : sock[d] \in {"none", "dropped"} => c <= d

\* ClientBuilder::build: an empty pool in front of an engine with no file.
InitPool == Init /\ aof = <<>>

\* pool.get() with an idle connection: the oldest idle connection is taken
\* and recycled; it is handed out if recycle returns Ok and dropped if not,
\* and then the get goes on with the next one.
PoolGetIdle ==
    /\ gets < MaxGets
    /\ slots # <<>>
    /\ Cardinality(held) < MaxPoolSize
    /\ \E probe \in try_read(sock[Head(slots)], 0) :
          LET c == Head(slots)
          IN  IF recycle(probe) = "Ok"
              THEN /\ held' = held \cup {c}
                   /\ acquired' = [conn |-> c, fresh |-> FALSE, probe |-> probe,
                                   was |-> sock[c], outcome |-> "None"]
                   /\ gets' = gets + 1
                   /\ sock' = sock
              ELSE /\ sock' = [sock EXCEPT ![c] = "dropped"]
                   /\ UNCHANGED <<held, acquired, gets>>
    /\ slots' = Tail(slots)
    /\ UNCHANGED <<engineVars, connVars, builderVars, wireVars>>

\* pool.get() with no idle connection and room in the pool: manager.create(),
\* which connects or fails.
PoolGetCreate ==
    /\ gets < MaxGets
    /\ slots = <<>>
    /\ Cardinality(held) < MaxPoolSize
    /\ \E connected \in BOOLEAN :
          IF connected
          THEN /\ sock' = [sock EXCEPT ![FreeConn] = "open"]
               /\ held' = held \cup {FreeConn}
               /\ acquired' = [conn |-> FreeConn, fresh |-> TRUE, probe |-> "None",
                               was |-> "open", outcome |-> "None"]
          ELSE /\ acquired' = [conn |-> 0, fresh |-> TRUE, probe |-> "None",
                               was |-> "none", outcome |-> "Io"]
               /\ UNCHANGED <<sock, held>>
    /\ gets' = gets + 1
    /\ UNCHANGED <<slots, engineVars, connVars, builderVars, wireVars>>

\* Client::execute: conn.execute(command) on the connection just acquired.
\* On a socket whose peer has closed, receive_response meets the end of the
\* stream.
PoolExecute ==
    /\ acquired.conn \in held
    /\ acquired.outcome = "None"
    /\ acquired' = [acquired EXCEPT
                       !.outcome = IF sock[acquired.conn] = "open"
                                   THEN "Response" ELSE "Io"]
    /\ UNCHANGED <<sock, slots, held, gets, engineVars, connVars, builderVars, wireVars>>

\* The caller drops its PooledConnection: the connection goes back to the
\* idle queue.
PoolRelease(c) ==
    /\ c \in held
    /\ held' = held \ {c}
    /\ slots' = Append(slots, c)
    /\ UNCHANGED <<sock, acquired, gets, engineVars, connVars, builderVars, wireVars>>

\* The server ends the handler of a connection and closes its socket.
PeerClose(c) ==
    /\ sock[c] = "open"
    /\ sock' = [sock EXCEPT ![c] = "half_closed"]
    /\ UNCHANGED <<slots, held, acquired, gets, engineVars, connVars, builderVars, wireVars>>

NextPool ==
    \/ PoolGetIdle
    \/ PoolGetCreate
    \/ PoolExecute
    \/ \E c \in Conns : PoolRelease(c)
    \/ \E c \in Conns : PeerClose(c)

SpecPool == InitPool /\ [][NextPool]_vars

\* ------------------------------- red-db-client, execute on pooled connections
\* What a server, or whatever answers in its place, writes for a command
\* whose response is want: the frame of the response; a frame that declares
\* 16 MiB + 1 bytes, whose payload happens to begin like the frame of
\* Response::Ok; a frame whose payload is no Response; the first two bytes of
\* the frame, after which it closes the connection.
OversizedLen == 16 * 1024 * 1024 + 1
ServerReplies(want) ==
    { [kind |-> "frame", closes |-> FALSE, bytes |-> ResponseFrame(want)],
      [kind |-> "oversized", closes |-> FALSE,
       bytes |-> ToLeBytes(OversizedLen, 4) \o ResponseFrame(ROk)
                    \o <<Str(OversizedLen - Size(ResponseFrame(ROk)), 0)>>],
      [kind |-> "garbage", closes |-> FALSE, bytes |-> RawFrame(<<Byte(9)>>)],
      [kind |-> "cut", closes |-> TRUE, bytes |-> ReadExact(ResponseFrame(want), 2).got] }

PooledCommands == {Get(SpaceA, KeyK), ListSpaces, IsSpaceExists(SpaceA)}

\* Client::execute after pool.get(): conn.execute(command), that is
\* send_command and receive_response on the connection's stream.  On a
\* stream that the peer closed the call fails with an I/O error.
ClientExecute(c) ==
    /\ acquired.conn \in held
    /\ acquired.outcome = "None"
    /\ LET k == acquired.conn
           want == ReadResponse(c, data)
       IN  IF sock[k] # "open"
           THEN /\ call' = [cmd |-> c, want |-> NoResp, ok |-> FALSE, err |-> "Io",
                            resp |-> NoResp]
                /\ acquired' = [acquired EXCEPT !.outcome = "Io"]
                /\ UNCHANGED <<sock, unread>>
           ELSE \E reply \in ServerReplies(want) :
                   LET r == receive_response(unread[k] \o reply.bytes)
                   IN  /\ unread' = [unread EXCEPT ![k] = r.rest]
                       /\ sock' = [sock EXCEPT
                                      ![k] = IF reply.closes THEN "half_closed" ELSE @]
                       /\ call' = [cmd |-> c, want |-> want, ok |-> r.ok,
                                   err |-> r.err, resp |-> r.resp]
                       /\ acquired' = [acquired EXCEPT
                                          !.outcome = IF r.ok THEN "Response" ELSE r.err]
    /\ UNCHANGED <<slots, held, gets, engineVars, connVars, builderVars>>

NextPooled ==
    \/ PoolGetIdle
    \/ PoolGetCreate
    \/ \E c \in PooledCommands : ClientExecute(c)
    \/ \E c \in Conns : PoolRelease(c)

SpecPooled == InitPool /\ [][NextPooled]_vars

\* ------------------------------------------- red-db-client, ClientBuilder
\* The addresses and the paths a caller passes; 0 stands for None.
Addrs == {1, 2}
Paths == {1, 2}
Panicked == made.outcome = "Panic"

\* A setter of the address that does not look at aof_path.
with_server_addr_unchecked(a) ==
    /\ ~Panicked
    /\ builder' = [builder EXCEPT !.server_addr = a]
    /\ made' = [made EXCEPT !.call = "with_server_addr", !.outcome = "Ok"]
    /\ UNCHANGED <<engineVars, connVars, sock, slots, held, acquired, gets, wireVars>>

\* ClientBuilder::with_server_addr: panics when aof_path is set.
with_server_addr(a) ==
    /\ ~Panicked
    /\ IF builder.aof_path # 0
       THEN /\ made' = [made EXCEPT !.call = "with_server_addr", !.outcome = "Panic"]
            /\ builder' = builder
       ELSE /\ builder' = [builder EXCEPT !.server_addr = a]
            /\ made' = [made EXCEPT !.call = "with_server_addr", !.outcome = "Ok"]
    /\ UNCHANGED <<engineVars, connVars, sock, slots, held, acquired, gets, wireVars>>

\* ClientBuilder::with_max_pool_size.
with_max_pool_size(n) ==
    /\ ~Panicked
    /\ builder' = [builder EXCEPT !.max_pool_size = n]
    /\ made' = [made EXCEPT !.call = "with_max_pool_size", !.outcome = "Ok"]
    /\ UNCHANGED <<engineVars, connVars, sock, slots, held, acquired, gets, wireVars>>

\* ClientBuilder::with_aof_path: panics when server_addr is set.
with_aof_path(p) ==
    /\ ~Panicked
    /\ IF builder.server_addr # 0
       THEN /\ made' = [made EXCEPT !.call = "with_aof_path", !.outcome = "Panic"]
            /\ builder' = builder
       ELSE /\ builder' = [builder EXCEPT !.aof_path = p]
            /\ made' = [made EXCEPT !.call = "with_aof_path", !.outcome = "Ok"]
    /\ UNCHANGED <<engineVars, connVars, sock, slots, held, acquired, gets, wireVars>>

\* ClientBuilder::build.  With a path the manager is made by with_file_path,
\* which constructs the engine on the file; with an address the manager
\* only keeps the address.  The Client is the pool's manager and size.
build ==
    /\ ~Panicked
    /\ IF builder.server_addr = 0 /\ builder.aof_path = 0
       THEN made' = [made EXCEPT !.call = "build", !.outcome = "NoConfig"]
       ELSE IF builder.aof_path # 0
       THEN made' = [call |-> "build", outcome |-> "Client",
                     clients |-> made.clients \cup
                        {[url |-> <<"File", builder.aof_path>>,
                          max_size |-> builder.max_pool_size, of |-> builder]},
                     opened |-> made.opened \cup {builder.aof_path}]
       ELSE made' = [made EXCEPT
                        !.call = "build", !.outcome = "Client",
                        !.clients = @ \cup
                           {[url |-> <<"Tcp", builder.server_addr>>,
                             max_size |-> builder.max_pool_size, of |-> builder]}]
    /\ UNCHANGED <<builder, engineVars, connVars, sock, slots, held, acquired, gets, wireVars>>

NextBuilder ==
    \/ \E a \in Addrs : with_server_addr(a)
    \/ \E n \in 1..MaxPoolSize : with_max_pool_size(n)
    \/ \E p \in Paths : with_aof_path(p)
    \/ build

SpecBuilder == InitPool /\ [][NextBuilder]_vars

\* ------------------------------------------- the engine with a full channel
\* An engine whose writer task has not been scheduled while n Sets were
\* executed: all of them are published and all of them are queued.
FullQueue(n) == [i \in 1..n |-> Set(SpaceA, KeyK, Val1)]
FullCommands == {Set(SpaceA, KeyJ, Val1), Delete(SpaceA, KeyK), CreateSpace(SpaceA)}

InitFull ==
    /\ \E n \in {AofChannelCap - 1, AofChannelCap} :
          /\ chan = FullQueue(n)
          /\ ptr = n
    /\ data = ComputeSet(Set(SpaceA, KeyK, Val1), EmptyMap).store
    /\ linear = data
    /\ live = LiveStep(EmptyMap, Set(SpaceA, KeyK, Val1))
    /\ aof = <<>>
    /\ written = <<>>
    /\ writer \in {"open", "run"}
    /\ pc = [t \in Tasks |-> "idle"]
    /\ cmd = [t \in Tasks |-> NoCmd]
    /\ db_snapshot = [t \in Tasks |-> EmptyMap]
    /\ current_data_ptr = [t \in Tasks |-> 0]
    /\ new_data = [t \in Tasks |-> EmptyMap]
    /\ ret = NoRet
    /\ issued = 0
    /\ epoch = 0
    /\ seen = [t \in Tasks |-> {}]
    /\ overlapped = FALSE
    /\ torn = <<>>
    /\ NetIdle

\* The writer is followed for its first MaxDrain records.
NextFull ==
    \/ \E t \in Tasks, c \in FullCommands : HandleWriteSend(t, c)
    \/ \E t \in Tasks : LoadAndCompute(t)
    \/ \E t \in Tasks : CompareAndSwap(t)
    \/ AofWriterOpen
    \/ (Len(written) < MaxDrain /\ AofWriterWrite)

SpecFull == InitFull /\ [][NextFull]_vars

\* ------------------------------------------------ a process that keeps running
\* aof_writer_task: write_all of the length prefix, write_all of the payload or
\* flush fails; the error is logged, the received command is gone and the loop
\* goes on.  Nothing, or the four bytes of the prefix, reached the file.
AofWriterWriteFailed ==
    /\ writer = "run"
    /\ chan # <<>>
    /\ \E n \in {0, 4} : aof' = aof \o ReadExact(Frame(Head(chan)), n).got
    /\ chan' = Tail(chan)
    /\ ret' = NoRet
    /\ UNCHANGED <<data, ptr, writer, pc, cmd, db_snapshot, current_data_ptr, new_data,
                   issued, epoch, seen, overlapped, written, linear>>
    /\ UNCHANGED <<live, torn, netVars>>

\* One write command of each kind on one space, and one that fails validation.
LiveCommands ==
    {Set(SpaceA, KeyK, Val1), Delete(SpaceA, KeyK), DeleteSpace(SpaceA),
     CreateSpace(SpaceA), Set(SpaceA, EmptyStr, Val1)}

\* Writes only, and no restart: the engine and its writer task run on.
NextLive ==
    \/ \E t \in Tasks : \E c \in LiveCommands : HandleWriteInvalid(t, c)
    \/ \E t \in Tasks : \E c \in LiveCommands : HandleWriteSend(t, c)
    \/ \E t \in Tasks : \E c \in LiveCommands : HandleWriteSendFailed(t, c)
    \/ \E t \in Tasks : LoadAndCompute(t)
    \/ \E t \in Tasks : CompareAndSwap(t)
    \/ AofWriterOpen
    \/ AofWriterOpenFailed
    \/ AofWriterWrite
    \/ AofWriterWriteFailed

\* The runtime polls every task that is ready: a caller inside the publish loop
\* never waits, and the writer task is woken whenever the channel holds a
\* command.
FairLive ==
    /\ \A t \in Tasks : WF_vars(LoadAndCompute(t) \/ CompareAndSwap(t))
    /\ WF_vars(AofWriterOpen \/ AofWriterOpenFailed \/ AofWriterWrite
                  \/ AofWriterWriteFailed)

SpecLive == Init /\ [][NextLive]_vars /\ FairLive

\* ================================================================== claims
\* What the claims say a Store answers, stated on the Store itself.
HasKeyIn(S, s, k) == \E hk \in DOMAIN S[s] : hk.key = k
ValueIn(S, s, k) == S[s][CHOOSE hk \in DOMAIN S[s] : hk.key = k]
SpaceNotFound(s) == RError(ServerError("SpaceNotFound", s))

ExpectGet(S, s, k) ==
    IF s \notin DOMAIN S THEN SpaceNotFound(s)
    ELSE IF HasKeyIn(S, s, k) THEN RValue(<<ValueIn(S, s, k)>>)
    ELSE RValue(<<>>)

\* The step is the Ok return of a write command.
OkReturn(op) == ret'.resp = ROk /\ ret'.cmd.op = op
SameEngine == epoch' = epoch

\* C1: an Ok Set(space, key, v) makes Get(space, key) answer Value(Some(v)),
\* an Ok Delete makes it answer Value(None), an Ok DeleteSpace makes it answer
\* Error(SpaceNotFound); on one engine a Value(Some(v)) answer changes only
\* with an Ok Set or Delete of that key or an Ok DeleteSpace of that space,
\* whatever else is executed; and a Get returns the answer of a Store that
\* was published while it ran.
C1_Step ==
    /\ OkReturn("Set") =>
          ExpectGet(data', ret'.cmd.space, ret'.cmd.key) = RValue(<<ret'.cmd.value>>)
    /\ OkReturn("Delete") =>
          ExpectGet(data', ret'.cmd.space, ret'.cmd.key) = RValue(<<>>)
    /\ OkReturn("DeleteSpace") =>
          \A k \in KeyNames :
             ExpectGet(data', ret'.cmd.space, k) = SpaceNotFound(ret'.cmd.space)
    /\ \A s \in SpaceNames, k \in KeyNames :
          ( /\ SameEngine
            /\ ExpectGet(data, s, k).val # <<>>
            /\ ExpectGet(data', s, k) # ExpectGet(data, s, k) )
          => /\ ret'.cmd.space = s
             /\ \/ OkReturn("DeleteSpace")
                \/ (OkReturn("Set") \/ OkReturn("Delete")) /\ ret'.cmd.key = k
    /\ (ret'.cmd.op = "Get" /\ ret' # NoRet) =>
          \E S \in seen[ret'.task] :
             ret'.resp = ExpectGet(S, ret'.cmd.space, ret'.cmd.key)

C1_SetGetDelete == [][C1_Step]_vars

\* A Get returned the value that a Set of this engine stored over the
\* restored one.
C1_Witness ==
    /\ ret.cmd = Get(SpaceA, KeyK)
    /\ ret.resp = RValue(<<ValMax>>)
    /\ epoch = 0

ExpectKeys(S, s) ==
    IF s \notin DOMAIN S THEN SpaceNotFound(s) ELSE RKeys(SetToBag({hk.key : hk \in DOMAIN S[s]}))
ExpectSpaces(S) == RSpaces(SetToBag(DOMAIN S))
ExpectExists(S, s) == RBool(s \in DOMAIN S)

ExpectRead(c, S) ==
    CASE c.op = "Get" -> ExpectGet(S, c.space, c.key)
      [] c.op = "ListKeys" -> ExpectKeys(S, c.space)
      [] c.op = "ListSpaces" -> ExpectSpaces(S)
      [] c.op = "IsSpaceExists" -> ExpectExists(S, c.space)

ReadOps == {"Get", "ListKeys", "ListSpaces", "IsSpaceExists"}
WriteOps == {"Set", "Delete", "DeleteSpace", "CreateSpace"}
AllNames == CreateNames
Quiet == \A t \in Tasks : pc[t] = "idle"

\* C2: after commands executed one after another, once the writer has
\* written every queued record, the engine constructed on the same file
\* answers every Get, ListKeys, ListSpaces and IsSpaceExists as the engine
\* before it did.
C2_Step ==
    (epoch' # epoch /\ ~overlapped /\ chan = <<>> /\ writer = "run")
    => /\ ExpectSpaces(data') = ExpectSpaces(data)
       /\ \A s \in AllNames :
             /\ ExpectExists(data', s) = ExpectExists(data, s)
             /\ ExpectKeys(data', s) = ExpectKeys(data, s)
             /\ \A k \in KeyNames : ExpectGet(data', s, k) = ExpectGet(data, s, k)

C2_RestartKeepsAnswers == [][C2_Step]_vars

\* C3: the Store of the engine constructed on the file is the fold, from the
\* empty Store and in file order, of the commands whose records the writer
\* wrote, under apply_command_to_store.
RECURSIVE Replay(_, _)
Replay(store, log) ==
    IF log = <<>> THEN store
    ELSE Replay(apply_command_to_store(store, Head(log)), Tail(log))

C4_Step ==
    (ret' # NoRet /\ ret'.cmd.op \in ReadOps)
    => \E S \in seen[ret'.task] : ret'.resp = ExpectRead(ret'.cmd, S)

C4_ReadsOneVersion == [][C4_Step]_vars

\* A Get returned the value of the version it loaded although a DeleteSpace
\* was published before it returned.
C4_Witness ==
    /\ ret.cmd = Get(SpaceA, KeyK)
    /\ ret.resp = RValue(<<Val1>>)
    /\ SpaceA \notin DOMAIN data
    /\ epoch = 0

\* C5: the published Store is the result of applying the writes that returned
\* Ok one at a time, in the order of their publication, each between its call
\* and its return; the Store changes with the Ok return of a write and with
\* nothing else.
C5_Step ==
    /\ (ret'.resp = ROk /\ SameEngine) => data' = ComputeWrite(ret'.cmd, data).store
    /\ (data' # data /\ SameEngine) => ret'.resp = ROk

C5_WritesLinearize == [](data = linear) /\ [][C5_Step]_vars

\* Two overlapping Sets of different keys of one space both returned Ok and
\* both are in the Store.
C5_Witness ==
    /\ overlapped
    /\ Quiet
    /\ epoch = 0
    /\ ptr = 2
    /\ SpaceA \in DOMAIN data
    /\ ExpectGet(data, SpaceA, KeyK) = RValue(<<ValMax>>)
    /\ ExpectGet(data, SpaceA, KeyJ) = RValue(<<ValMax>>)

ValidationErrors == {"InvalidKey", "ValueTooLarge", "InvalidSpaceName"}
KindOf(r) == r.resp.err.kind

\* What the claims call a command that fails validation.
FailsValidation(c) ==
    \/ c.op = "Set" /\ (StrLen(c.key) = 0 \/ StrLen(c.value) > 1048576)
    \/ c.op = "CreateSpace" /\ (StrLen(c.space) = 0 \/ StrLen(c.space) > 255)

\* C6: a write command that fails validation returns Response::Error with a
\* validation error in the step that calls it, nothing is enqueued and the
\* Store is not changed; no such command is ever in progress, queued or
\* written to the file.
C6_Step ==
    (ret' # NoRet /\ FailsValidation(ret'.cmd))
    => /\ ret'.resp.tag = "Error"
       /\ KindOf(ret') \in ValidationErrors
       /\ issued' = issued + 1
       /\ chan' = chan
       /\ data' = data
       /\ ptr' = ptr

C6_State ==
    /\ \A t \in Tasks : ~FailsValidation(cmd[t])
    /\ \A i \in DOMAIN chan : ~FailsValidation(chan[i])
    /\ \A i \in DOMAIN written : ~FailsValidation(written[i])

C6_InvalidWriteRejected == []C6_State /\ [][C6_Step]_vars

\* A Set with an empty key was refused while a command was queued.
C6_Witness ==
    /\ ret.cmd.op = "Set"
    /\ StrLen(ret.cmd.key) = 0
    /\ KindOf(ret) = "InvalidKey"
    /\ chan # <<>>

\* C7: a Set of a value of 1,048,576 bytes passes validation and one of
\* 1,048,577 bytes returns ValueTooLarge; a Set with an empty key returns
\* InvalidKey; a CreateSpace of a name of 255 bytes passes validation and one
\* of an empty name or of a name of 256 bytes returns InvalidSpaceName.
C7_Step ==
    ret' # NoRet =>
      /\ (ret'.cmd.op = "Set" /\ StrLen(ret'.cmd.key) = 0)
            => KindOf(ret') = "InvalidKey"
      /\ (ret'.cmd.op = "Set" /\ StrLen(ret'.cmd.key) > 0
             /\ StrLen(ret'.cmd.value) = 1048577)
            => KindOf(ret') = "ValueTooLarge"
      /\ (ret'.cmd.op = "Set" /\ StrLen(ret'.cmd.key) > 0
             /\ StrLen(ret'.cmd.value) = 1048576)
            => KindOf(ret') \notin ValidationErrors
      /\ (ret'.cmd.op = "CreateSpace" /\ StrLen(ret'.cmd.space) \in {0, 256})
            => KindOf(ret') = "InvalidSpaceName"
      /\ (ret'.cmd.op = "CreateSpace" /\ StrLen(ret'.cmd.space) = 255)
            => KindOf(ret') \notin ValidationErrors

C7_ValidationBoundaries == [][C7_Step]_vars

\* A name of 255 bytes was created and a value of 1 MiB was stored.
C7_Witness ==
    /\ Name255 \in DOMAIN data
    /\ ret.cmd = Set(SpaceA, KeyK, ValMax)
    /\ ret.resp = ROk
    /\ ExpectGet(data, SpaceA, KeyK) = RValue(<<ValMax>>)

\* The space of the command is in no Store published during the read.
AbsentThroughout(t, s) == \A S \in seen[t] : s \notin DOMAIN S

\* C8: for a space name that is absent from the Store, Get, ListKeys, Delete
\* and DeleteSpace return Error(SpaceNotFound(name)) and leave the Store as it
\* is, IsSpaceExists returns Bool(false), and ListSpaces returns Spaces in
\* every state.
C8_Step ==
    ret' # NoRet =>
      /\ (ret'.cmd.op \in {"Get", "ListKeys"} /\ AbsentThroughout(ret'.task, ret'.cmd.space))
            => ret'.resp = SpaceNotFound(ret'.cmd.space) /\ data' = data
      /\ (ret'.cmd.op = "IsSpaceExists" /\ AbsentThroughout(ret'.task, ret'.cmd.space))
            => ret'.resp = RBool(FALSE) /\ data' = data
      /\ ret'.cmd.op = "ListSpaces" => ret'.resp.tag = "Spaces" /\ data' = data
      /\ (ret'.cmd.op \in {"Delete", "DeleteSpace"} /\ ret'.cmd.space \notin DOMAIN data
             /\ KindOf(ret') # "AofWriteFailed")
            => ret'.resp = SpaceNotFound(ret'.cmd.space) /\ data' = data

C8_AbsentSpace == [][C8_Step]_vars

\* A DeleteSpace of a space that is not there returned SpaceNotFound.
C8_Witness ==
    /\ ret.cmd = DeleteSpace(SpaceB)
    /\ ret.resp = SpaceNotFound(SpaceB)
    /\ SpaceB \notin DOMAIN data

\* The key is missing from its space, which exists, in every Store published
\* during the read.
KeyMissingThroughout(t, s, k) ==
    \A S \in seen[t] : s \in DOMAIN S /\ ~HasKeyIn(S, s, k)

\* C9: for an existing space and a key that is not in it, Get returns
\* Value(None) and Delete returns Ok and leaves every space as it is; no
\* command returns Error(KeyNotFound).
C9_Step ==
    ret' # NoRet =>
      /\ (ret'.cmd.op = "Get"
             /\ KeyMissingThroughout(ret'.task, ret'.cmd.space, ret'.cmd.key))
            => ret'.resp = RValue(<<>>)
      /\ (ret'.cmd.op = "Delete" /\ ret'.cmd.space \in DOMAIN data
             /\ ~HasKeyIn(data, ret'.cmd.space, ret'.cmd.key)
             /\ KindOf(ret') # "AofWriteFailed")
            => ret'.resp = ROk /\ data' = data
      /\ KindOf(ret') # "KeyNotFound"

C9_MissingKey == [][C9_Step]_vars

\* A Delete of a key that its space does not hold returned Ok.
C9_Witness ==
    /\ ret.cmd = Delete(SpaceA, KeyJ)
    /\ ret.resp = ROk
    /\ issued = 1
    /\ epoch = 0
    /\ ExpectGet(data, SpaceA, KeyK) = RValue(<<Val1>>)

\* The commands journaled since this engine was constructed on the file log.
RECURSIVE IsPrefix(_, _)
IsPrefix(p, s) ==
    \/ p = <<>>
    \/ s # <<>> /\ Head(p) = Head(s) /\ IsPrefix(Tail(p), Tail(s))
Journal == written \o chan
OnlyCreatorsOf(n) ==
    \E log \in InitialLogs :
       /\ IsPrefix(log, Journal)
       /\ Len(Journal) >= Len(log) + 2
       /\ n \notin DOMAIN Replay(EmptyMap, log)
       /\ \A i \in (Len(log) + 1)..Len(Journal) : Journal[i] = CreateSpace(n)

\* C10: a CreateSpace of a name that is in the Store returns
\* Error(SpaceAlreadyExists(name)) and leaves the Store as it is; a CreateSpace
\* returns Ok only for a name that was absent and SpaceAlreadyExists only for
\* one that is present; and when the only writes of an engine are CreateSpace
\* commands for one name that was absent, exactly one of them has published
\* once all have returned.
C10_Step ==
    (ret' # NoRet /\ ret'.cmd.op = "CreateSpace")
    => /\ (ret'.cmd.space \in DOMAIN data
              /\ KindOf(ret') \notin ValidationErrors \cup {"AofWriteFailed"})
             => /\ ret'.resp = RError(ServerError("SpaceAlreadyExists", ret'.cmd.space))
                /\ data' = data
       /\ ret'.resp = ROk
             => /\ ret'.cmd.space \notin DOMAIN data
                /\ data' = MapInsert(data, ret'.cmd.space, EmptyMap)
       /\ KindOf(ret') = "SpaceAlreadyExists" => ret'.cmd.space \in DOMAIN data

C10_State ==
    \A n \in AllNames :
       (epoch = 0 /\ writer # "dead" /\ Quiet /\ OnlyCreatorsOf(n))
       => ptr = 1 /\ n \in DOMAIN data

C10_CreateSpaceOnce == []C10_State /\ [][C10_Step]_vars

\* Two overlapping CreateSpace commands for an absent name: one published and
\* the other returned SpaceAlreadyExists.
C10_Witness ==
    /\ overlapped
    /\ Quiet
    /\ epoch = 0
    /\ writer # "dead"
    /\ OnlyCreatorsOf(SpaceB)
    /\ ret.resp = RError(ServerError("SpaceAlreadyExists", SpaceB))

\* C11: ListKeys of an existing space returns, each once, exactly the keys
\* that were Set in the space since it came into existence and not Deleted
\* after their last Set; the keys of a space removed by DeleteSpace are not in
\* a space created again under the name.  The Store holds exactly these keys
\* in every state, and a ListKeys that no publish overlapped returns them.
C11_State ==
    /\ DOMAIN data = DOMAIN live
    /\ \A s \in DOMAIN data : KeysOf(data[s]) = SetToBag(live[s])

C11_Step ==
    (ret' # NoRet /\ ret'.cmd.op = "ListKeys"
        /\ seen[ret'.task] = {data} /\ ret'.cmd.space \in DOMAIN live)
    => /\ ret'.resp.tag = "Keys"
       /\ BagToSet(ret'.resp.items) = live[ret'.cmd.space]
       /\ \A k \in live[ret'.cmd.space] : CopiesIn(k, ret'.resp.items) = 1

C11_ListKeysExact == []C11_State /\ [][C11_Step]_vars

\* ListKeys returned both keys of the space, each once.
C11_Witness ==
    /\ ret.cmd = ListKeys(SpaceA)
    /\ ret.resp = RKeys(SetToBag({KeyK, KeyJ}))
    /\ live[SpaceA] = {KeyK, KeyJ}
    /\ epoch = 0

IsMutating(c) == c.op \in WriteOps

\* C12: when the file ends inside a record (inside the length prefix or
\* inside the payload), the Store of the constructed engine is the fold of the
\* complete records before it.
C12_TornTailSkipped == torn # <<>> => data = Replay(EmptyMap, written)

\* C13: a complete record whose payload is no Command, and a record of a
\* read command, leave the Store being built as it is and do not end the
\* restore: the Store is the fold of the mutating commands of the file, those
\* after such a record included.
C13_SkippedRecords ==
    torn = <<>> => data = Replay(EmptyMap, SelectSeq(written, IsMutating))

\* A file with a record that is no Command and one of a read between a
\* CreateSpace and a Set, constructed twice: the Set is in the Store.
C13_Witness ==
    /\ torn = <<>>
    /\ epoch = 1
    /\ Len(written) = 3
    /\ written[1] = CreateSpace(SpaceA)
    /\ ~IsMutating(written[2])
    /\ written[3] = Set(SpaceA, KeyK, Val1)
    /\ ExpectGet(data, SpaceA, KeyK) = RValue(<<Val1>>)

AofWriteFailed == RError(ServerError("AofWriteFailed", EmptyStr))

\* C14: once the writer task has ended and the channel is closed, every valid
\* write command called from then on returns Error(AofWriteFailed) in the step
\* that calls it, nothing is enqueued and the Store stays as it is; read
\* commands are answered from a published Store as before; the channel stays
\* closed for the life of the engine.
C14_Step ==
    writer = "dead" =>
      /\ chan' = chan \/ epoch' # epoch
      /\ epoch' = epoch => writer' = "dead"
      /\ issued' = issued + 1 => (ret' # NoRet \/ \E t \in Tasks : pc'[t] = "read")
      /\ (ret' # NoRet /\ issued' = issued + 1 /\ ret'.cmd.op \in WriteOps
             /\ ~FailsValidation(ret'.cmd))
            => ret'.resp = AofWriteFailed /\ data' = data /\ ptr' = ptr
      /\ (ret' # NoRet /\ ret'.cmd.op \in ReadOps)
            => \E S \in seen[ret'.task] : ret'.resp = ExpectRead(ret'.cmd, S)

C14_ClosedChannel == [][C14_Step]_vars

\* With the writer gone a Set was refused and the Store still holds what it
\* held.
C14_Witness ==
    /\ writer = "dead"
    /\ ret.cmd = Set(SpaceA, KeyJ, Val1)
    /\ ret.resp = AofWriteFailed
    /\ ExpectGet(data, SpaceA, KeyK) = RValue(<<Val1>>)
    /\ ExpectGet(data, SpaceA, KeyJ) = RValue(<<>>)

\* The bytes a step appended to the file.
Appended == SubSeq(aof', Len(aof) + 1, Len(aof'))

\* C15: the writer appends the records in the order in which the commands
\* were enqueued: every change of the file appends one whole frame (the
\* 4-byte little-endian length of the payload, then the payload) of the
\* command at the head of the queue and removes that command; commands enter
\* the queue at its tail; the writer removes no command without writing it.
C15_Step ==
    /\ aof' # aof
          => /\ chan # <<>>
             /\ chan' = Tail(chan)
             /\ written' = Append(written, Head(chan))
             /\ aof' = aof \o ToLeBytes(Size(EncodeCommand(Head(chan))), 4)
                           \o EncodeCommand(Head(chan))
             /\ Head(chan) = CreateSpace(SpaceA)
                   => Bytes(Appended) = <<3, 0, 0, 0, 6, 1, 97>>
             /\ Head(chan) = Set(SpaceA, KeyK, ValMax)
                   => /\ Bytes(SubSeq(Appended, 1, 9)) = <<10, 0, 16, 0, 1, 1, 97, 1, 107>>
                      /\ Size(Appended) = 4 + 1048586
    /\ (chan' # chan /\ epoch' = epoch /\ writer' = writer)
          => \/ chan # <<>> /\ chan' = Tail(chan) /\ aof' # aof
             \/ \E t \in Tasks : chan' = Append(chan, cmd'[t]) /\ aof' = aof

NumWritten == IF hpc = "write" THEN Len(executed) - 1 ELSE Len(executed)
Answer(r) == [ok |-> TRUE, err |-> "None", resp |-> r]

\* C16: on one connection the commands are executed in the order of their
\* frames, the server writes one response frame per executed command in that
\* order and nothing else, and it reads the next command only when the
\* response to the last one is written.
C16_State ==
    /\ Len(executed) <= Len(script)
    /\ \A i \in DOMAIN executed :
          script[i].kind = "command" /\ executed[i].cmd = script[i].cmd
    /\ [i \in DOMAIN executed |-> Answer(executed[i].resp)]
          = EmbeddedResults(InitialStore(aof), [i \in DOMAIN executed |-> script[i].cmd])
    /\ TcpResults(outbox, NumWritten) = [i \in 1..NumWritten |-> Answer(executed[i].resp)]
    /\ ~TcpResults(outbox, NumWritten + 1)[NumWritten + 1].ok
    /\ hpc = "read" => NumWritten = Len(executed)

C16_Step == stream' # stream => hpc = "read" /\ outbox' = outbox

C16_RequestResponsePaired == []C16_State /\ [][C16_Step]_vars

\* Three commands were answered in order, an engine error among them.
C16_Witness ==
    /\ hpc = "done"
    /\ result = "Ok"
    /\ Len(executed) = 3
    /\ executed[1].resp = SpaceNotFound(SpaceA)
    /\ executed[2].resp = ROk
    /\ executed[3].resp = RValue(<<Val1>>)

\* The length the prefix of a frame declares.
DeclaredLen(item) == FromLeBytes(ReadExact(item.bytes, 4).got)
Untouched ==
    /\ executed' = executed
    /\ outbox' = outbox
    /\ data' = data
    /\ chan' = chan

\* C17: a frame whose prefix declares more than 1,048,576 bytes ends the
\* handler with CommandTooLarge, and a frame whose payload is no Command ends
\* it with a Protocol error, in both cases without a call of execute and
\* without a response frame; writing a response that carries an engine error
\* leaves the handler in its loop.
C17_Step ==
    /\ (hpc = "read" /\ hpc' # hpc /\ Len(executed) < Len(script))
          => /\ (script[Len(executed) + 1].kind # "partial"
                    /\ DeclaredLen(script[Len(executed) + 1]) > 1048576)
                   => result' = "CommandTooLarge" /\ hpc' = "done" /\ Untouched
             /\ script[Len(executed) + 1].kind = "garbage"
                   => result' = "Protocol" /\ hpc' = "done" /\ Untouched
    /\ (hpc = "write" /\ hpc' # hpc /\ response.tag = "Error")
          => hpc' = "read" /\ result' = "None"

C17_BadFrameCloses == [][C17_Step]_vars

\* An engine error was answered and the connection went on to the next
\* frame, which declared too many bytes and ended it.
C17_Witness ==
    /\ hpc = "done"
    /\ result = "CommandTooLarge"
    /\ Len(executed) = 1
    /\ executed[1].resp.tag = "Error"
    /\ script[2].kind = "oversized"
    /\ TcpResults(outbox, 1) = <<Answer(executed[1].resp)>>

\* C18: the handler ends in an orderly way only when the stream ends at a
\* frame boundary; a stream that ends inside the length prefix or inside the
\* payload ends it with an error.
C18_EofMidFrame ==
    (hpc = "done" /\ script # <<>> /\ script[Len(script)].kind = "partial"
        /\ Len(executed) = Len(script) - 1)
    => result # "Ok"

\* C19: when every frame on the connection is a command sent by
\* TcpConnection, each call of execute returns to the TCP client what
\* FileConnection returns for the same commands on an engine with the same
\* initial Store: Ok of the same Response, engine errors included.
C19_TcpEqualsEmbedded ==
    (hpc = "done" /\ \A i \in DOMAIN script : script[i].kind = "command")
    => TcpResults(outbox, Len(script))
          = EmbeddedResults(InitialStore(aof), [i \in DOMAIN script |-> script[i].cmd])

\* C20: a pooled TCP connection whose socket is half-closed is reported
\* unhealthy by is_healthy, rejected by recycle and never handed out by a
\* later acquire: no connection that a get() took from the idle queue and
\* handed out was half-closed when recycle probed it.
C20_HalfClosedRejected ==
    (acquired.conn # 0 /\ ~acquired.fresh) => acquired.was # "half_closed"

\* C21: a ClientBuilder never yields a Client with zero or two backends: a
\* setter called when the other backend is set panics, and that step opens
\* no file and builds nothing; build with neither set returns NoConfig and
\* builds nothing; every Client was built from a builder with exactly one of
\* server_addr and aof_path set, and has that one as its backend.
C21_Step ==
    /\ ( \/ (made'.call = "with_server_addr" /\ made' # made /\ builder.aof_path # 0)
         \/ (made'.call = "with_aof_path" /\ made' # made /\ builder.server_addr # 0) )
       => /\ made'.outcome = "Panic"
          /\ made'.opened = made.opened
          /\ made'.clients = made.clients
          /\ builder' = builder
    /\ (made'.call = "build" /\ builder.server_addr = 0 /\ builder.aof_path = 0)
       => /\ made'.outcome = "NoConfig"
          /\ made'.opened = made.opened
          /\ made'.clients = made.clients

C21_State ==
    /\ (builder.server_addr = 0) \/ (builder.aof_path = 0)
    /\ \A c \in made.clients :
          /\ (c.of.server_addr = 0) # (c.of.aof_path = 0)
          /\ c.url = IF c.of.aof_path # 0 THEN <<"File", c.of.aof_path>>
                     ELSE <<"Tcp", c.of.server_addr>>

C21_OneBackend == []C21_State /\ [][C21_Step]_vars

\* A builder that built an embedded Client panicked at with_server_addr.
C21_Witness ==
    /\ made.call = "with_server_addr"
    /\ made.outcome = "Panic"
    /\ builder.aof_path # 0
    /\ made.clients # {}

\* C22: in every published Store no space contains the empty key and no
\* stored value is longer than 1,048,576 bytes.
C22_StoredKeysValid ==
    \A s \in DOMAIN data : \A hk \in DOMAIN data[s] :
       /\ StrLen(hk.key) > 0
       /\ StrLen(data[s][hk]) <= 1048576

\* A Set with an empty key was refused on a Store that holds a value of
\* 1,048,576 bytes.
C22_Witness ==
    /\ ret.cmd = Set(SpaceA, EmptyStr, ValMax)
    /\ KindOf(ret) = "InvalidKey"
    /\ ExpectGet(data, SpaceA, KeyK) = RValue(<<ValMax>>)

\* C23: the engine rejects empty space names and space names longer than 255
\* bytes: every space name present in the published Store is non-empty and at
\* most 255 bytes long.
C23_SpaceNamesValid ==
    \A s \in DOMAIN data : StrLen(s) > 0 /\ StrLen(s) <= 255

\* C24: for every Store S and mutating command c that passes validation,
\* replay yields the Store of the live publish step where that step succeeds;
\* where it returns a state error, replay yields S unchanged for a Delete or
\* DeleteSpace of an unknown space, and S with the space replaced by an empty
\* space for a CreateSpace of an existing one.
C24_At(S, c) ==
    LET lv == ComputeWrite(c, S)
        rp == apply_command_to_store(S, c)
    IN  /\ lv.ok => rp = lv.store
        /\ (~lv.ok /\ c.op \in {"Delete", "DeleteSpace"}) =>
              (c.space \notin DOMAIN S /\ rp = S)
        /\ (~lv.ok /\ c.op = "CreateSpace") =>
              /\ c.space \in DOMAIN S
              /\ DOMAIN rp = DOMAIN S
              /\ DOMAIN rp[c.space] = {}
              /\ \A s \in DOMAIN S \ {c.space} : rp[s] = S[s]
        /\ ~lv.ok => c.op \in {"Delete", "DeleteSpace", "CreateSpace"}

C24_ReplayVsLive ==
    \A c \in WriteCommands : validate_command(c).ok => C24_At(data, c)

\* An engine constructed on a file whose last record is a CreateSpace of a
\* space that the records before it had filled: the space is empty.
C24_Witness ==
    /\ epoch = 1
    /\ Len(written) = 3
    /\ written[2] = Set(SpaceA, KeyK, Val1)
    /\ written[3] = CreateSpace(SpaceA)
    /\ data = Replay(EmptyMap, written)
    /\ DOMAIN data[SpaceA] = {}

\* C25: replay is idempotent: folding a log with apply_command_to_store over
\* the Store obtained by folding that log from the empty Store gives that
\* Store again.  The logs are the files the writer produced, with and without
\* the commands still queued.
C25_ReplayIdempotent ==
    /\ Replay(Replay(EmptyMap, written), written) = Replay(EmptyMap, written)
    /\ Replay(Replay(EmptyMap, written \o chan), written \o chan)
          = Replay(EmptyMap, written \o chan)

\* A log of four records that ends with the Delete of a key set before it.
C25_Witness ==
    /\ Len(written) = 4
    /\ written[3].op = "Set"
    /\ written[4] = Delete(written[3].space, written[3].key)
    /\ Replay(EmptyMap, written) # EmptyMap

StateErrors == {"SpaceNotFound", "SpaceAlreadyExists"}

\* C26: a valid write command that returns a state error was enqueued on the
\* AOF channel once, by the step that called it, and its return leaves the
\* published Store and the channel as they are; a command is enqueued only by
\* the step that calls it, never by a pass of the loop or a retry after a
\* failed compare-and-swap.
C26_Step ==
    /\ (ret' # NoRet /\ ret'.cmd.op \in WriteOps /\ KindOf(ret') \in StateErrors)
       => /\ data' = data
          /\ ptr' = ptr
          /\ chan' = chan
          /\ issued' = issued
          /\ pc[ret'.task] = "load"
          /\ cmd[ret'.task] = ret'.cmd
    /\ Len(chan') > Len(chan)
       => /\ issued' = issued + 1
          /\ \E t \in Tasks :
                /\ pc[t] = "idle"
                /\ pc'[t] = "load"
                /\ chan' = Append(chan, cmd'[t])
    /\ \A t \in Tasks :
          (pc[t] \in {"load", "cas"} /\ pc'[t] \in {"load", "cas"} /\ SameEngine)
          => cmd'[t] = cmd[t]

C26_StateErrorJournaledOnce == [][C26_Step]_vars

\* A CreateSpace of an existing space returned SpaceAlreadyExists; its one
\* record is the only one queued and the space still holds its key.
C26_Witness ==
    /\ ret.cmd = CreateSpace(SpaceA)
    /\ KindOf(ret) = "SpaceAlreadyExists"
    /\ chan = <<CreateSpace(SpaceA)>>
    /\ ExpectGet(data, SpaceA, KeyK) = RValue(<<Val1>>)

\* C27: each mutation visible in the published Store was placed on the AOF
\* channel before it was published; the channel never holds more than 1024
\* commands; a writer waiting at a full channel has not changed the Store:
\* a write call begins by appending its command to a channel that has room,
\* and that step leaves the Store alone; the Store changes only with the Ok
\* return of a task that is past its enqueue; with the channel full no write
\* call gets past its send.
C27_Step ==
    /\ \A t \in Tasks :
          (pc[t] = "idle" /\ pc'[t] # "idle" /\ cmd'[t].op \in WriteOps)
          => /\ Len(chan) < AofChannelCap
             /\ chan' = Append(chan, cmd'[t])
             /\ data' = data
             /\ ptr' = ptr
    /\ (data' # data /\ SameEngine)
       => \E t \in Tasks :
             /\ pc[t] = "cas"
             /\ ret' = Return(t, cmd[t], ROk)
    /\ Len(chan) = AofChannelCap
       => \A t \in Tasks :
             pc[t] = "idle" => (pc'[t] = "idle" \/ cmd'[t].op \in ReadOps)

C27_EnqueueBeforePublish == [](Len(chan) <= AofChannelCap) /\ [][C27_Step]_vars

\* The channel is full with the command of a Set that has since been
\* published, and the other task has not got past its send.
C27_Witness ==
    /\ Len(chan) = AofChannelCap
    /\ chan[AofChannelCap] = Set(SpaceA, KeyJ, Val1)
    /\ ret.cmd = Set(SpaceA, KeyJ, Val1)
    /\ ret.resp = ROk
    /\ ExpectGet(data, SpaceA, KeyJ) = RValue(<<Val1>>)
    /\ Quiet

\* The engine was constructed on the file of CreateSpace(a), Set(a, k, x), and
\* every record written since is a Set or a Delete in space a.
SetsAndDeletesOnA ==
    /\ Len(written) > 2
    /\ SubSeq(written, 1, 2) = <<CreateSpace(SpaceA), Set(SpaceA, KeyK, Val1)>>
    /\ \A i \in 3..Len(written) :
          /\ written[i].op \in {"Set", "Delete"}
          /\ written[i].space = SpaceA

\* C28: when tasks concurrently issue Set and Delete commands on an existing
\* space, after all of them have returned and the writer has written every
\* queued record, the engine restarted on the file has the Store the live
\* engine had.
C28_Step ==
    ( /\ epoch' # epoch
      /\ epoch = 0
      /\ overlapped
      /\ chan = <<>>
      /\ writer = "run"
      /\ SetsAndDeletesOnA )
    => data' = data

C28_RacingWritesRecovered == [][C28_Step]_vars

\* C29: writes that return Ok on an engine started from an existing AOF file
\* are recovered by the next restart, also when that file ended with a
\* partial record or restoring it failed: once the writer has written every
\* queued record, the engine constructed on the file answers a Get of each
\* key that was Set with the value that was set.
C29_Step ==
    (epoch' # epoch /\ chan = <<>> /\ writer = "run")
    => \A i \in DOMAIN written :
          written[i] \in RewriteCommands
          => ExpectGet(data', written[i].space, written[i].key)
                = RValue(<<written[i].value>>)

C29_WritesAfterRestartRecovered == [][C29_Step]_vars

\* C30: on a pooled TCP connection every Response that execute(c) returns is
\* the server's response to that command c, also on a connection on which an
\* earlier execute failed; and a connection left with unread response bytes
\* is not handed out again.
C30_ResponseOfSameCommand ==
    /\ call.ok => call.resp = call.want
    /\ (acquired.conn \in held /\ ~acquired.fresh /\ acquired.outcome = "None")
       => unread[acquired.conn] = <<>>

\* C31: with finitely many write commands issued concurrently every
\* handle_write call returns under fair scheduling: only write commands reach
\* the publish loop (the unreachable arm is never taken), a compare-and-swap
\* fails only when another writer published since the load, and every caller
\* inside the loop leaves it.
C31_OnlyWritesInLoop ==
    \A t \in Tasks : pc[t] \in {"load", "cas"} => cmd[t].op \in WriteOps

C31_FailedCasStep ==
    \A t \in Tasks :
        (pc[t] = "cas" /\ pc'[t] = "load")
        => (ptr > current_data_ptr[t] /\ ptr' = ptr /\ data' = data)

C31_LoopLeft == \A t \in Tasks : (pc[t] \in {"load", "cas"}) ~> (pc[t] = "idle")

C31_EveryWriteReturns ==
    /\ []C31_OnlyWritesInLoop
    /\ [][C31_FailedCasStep]_vars
    /\ C31_LoopLeft

\* A caller whose compare-and-swap is bound to fail: the other caller has
\* published and returned Ok since this one loaded.
C31_Witness ==
    /\ pc[1] = "cas"
    /\ current_data_ptr[1] < ptr
    /\ ret.task = 2
    /\ ret.resp = ROk

\* C32: once the writer task has opened the file, and while the process
\* runs, every command on the AOF channel is eventually appended to the file,
\* also the commands still queued after the last caller is gone: the writer
\* takes a command off the channel only by appending its record, and the
\* channel is emptied.
C32_AppendStep ==
    (writer = "run" /\ Len(chan') < Len(chan))
    => /\ chan' = Tail(chan)
       /\ written' = Append(written, Head(chan))
       /\ aof' = aof \o Frame(Head(chan))

C32_Drained == (writer = "run" /\ chan # <<>>) ~> (chan = <<>>)

C32_QueuedEventuallyAppended ==
    /\ [][C32_AppendStep]_vars
    /\ C32_Drained

====
